---- MODULE Spec2Model ----
(***************************************************************************)
(* Model of the credential redaction engine and of the record/replay       *)
(* harness of superfaceai/testing-lib.                                     *)
(*                                                                         *)
(* Strings are sequences of one-character strings.  A few multi-character  *)
(* pieces of text that the code only ever handles as a unit are one        *)
(* element of such a sequence: the placeholder prefixes, the header name   *)
(* "Authorization", the words "Basic " and "Bearer ", and the escape       *)
(* "%2B".                                                                  *)
(***************************************************************************)
EXTENDS Naturals, Sequences, FiniteSets, TLC

VARIABLES
  pc,           \* position of the operation under way
  payload,      \* replaceCredential: the text searched
  credential,   \* the secret of the operation under way
  replaced,     \* replaceCredential: its outcome [out, err]
  definition,   \* the recording definition being edited in place
  original,     \* the definition as it was before the first edit
  redacted,     \* the definition as the first redaction left it
  scheme,       \* the security scheme of the operation ("param" for a parameter)
  thrown,       \* the error thrown by the last operation, "none" if it returned
  passes,       \* how many times the redaction has acted on definition
  definitions,  \* the list of recorded exchanges handed to the pass
  recorded,     \* that list as it was captured or loaded
  config,       \* [securitySchemes, securityValues, integrationParameters]
  run,          \* the state of one SuperfaceTest.run call
  cursor,       \* the loops of a pass: exchange i, scheme k (0: parameters due)
  calls         \* the calls the passes have made to the per-exchange functions

vars == <<pc, payload, credential, replaced, definition, original, redacted,
          scheme, thrown, passes, definitions, recorded, config, run,
          cursor, calls>>

(***************************************************************************)
(* Bounds of the model.                                                    *)
(***************************************************************************)
MaxLen == 2         \* longest generated payload text
MaxSecretLen == 2   \* longest generated secret

\* characters of generated texts: a letter and the two pattern metacharacters
\* "." (any character) and "+" (one or more of the preceding item)
Alphabet == {"a", ".", "+"}

StrUpTo(n) == UNION {[1..k -> Alphabet] : k \in 0..n}

\* the secret with metacharacters that the specification gives as its example
MetaSecret == <<"a", ".", "b", "+", "c">>

Payloads == StrUpTo(MaxLen) \cup {MetaSecret}
Secrets == StrUpTo(MaxSecretLen) \cup {MetaSecret}

(***************************************************************************)
(* String helpers: String.prototype.includes and Array.prototype.join.     *)
(***************************************************************************)
Includes(s, t) ==
  \E i \in 0..Len(s) :
     /\ i + Len(t) <= Len(s)
     /\ SubSeq(s, i + 1, i + Len(t)) = t

RECURSIVE Join(_, _)
Join(items, sep) ==
  IF Len(items) = 0 THEN <<>>
  ELSE IF Len(items) = 1 THEN items[1]
  ELSE items[1] \o sep \o Join(Tail(items), sep)

(***************************************************************************)
(* new RegExp(credential, 'g') for patterns over the characters of the     *)
(* model: every character is a literal except "." and "+".  The            *)
(* constructor throws SyntaxError ("Nothing to repeat") for a "+" that     *)
(* has no item before it or that follows another "+".                      *)
(***************************************************************************)
RegExpValid(pattern) ==
  \A i \in 1..Len(pattern) :
     pattern[i] = "+" => (i > 1 /\ pattern[i - 1] # "+")

\* the items of a valid pattern: a character and whether "+" follows it
RegExpAtoms(pattern) ==
  LET RECURSIVE build(_)
      build(i) ==
        IF i > Len(pattern) THEN <<>>
        ELSE IF pattern[i] = "+" THEN build(i + 1)
        ELSE <<[c |-> pattern[i],
                plus |-> (i < Len(pattern) /\ pattern[i + 1] = "+")]>>
             \o build(i + 1)
  IN build(1)

AtomMatches(atom, ch) == atom.c = "." \/ atom.c = ch

\* Backtracking match of atoms[k..] against s from position pos, greedy as
\* in ECMAScript: the position after the match, or 0 when there is none.
RECURSIVE MatchFrom(_, _, _, _)
RECURSIVE MatchPlus(_, _, _, _, _)
MatchFrom(atoms, k, s, pos) ==
  IF k > Len(atoms) THEN pos
  ELSE IF pos > Len(s) \/ ~AtomMatches(atoms[k], s[pos]) THEN 0
  ELSE IF ~atoms[k].plus THEN MatchFrom(atoms, k + 1, s, pos + 1)
  ELSE LET RECURSIVE run_(_)
           run_(p) == IF p <= Len(s) /\ AtomMatches(atoms[k], s[p])
                      THEN run_(p + 1) ELSE p
       IN MatchPlus(atoms, k, s, pos + 1, run_(pos))

\* tries the longest repetition first: the rest of the pattern from `last`,
\* then from each earlier position down to `first`
MatchPlus(atoms, k, s, first, last) ==
  IF last < first THEN 0
  ELSE LET e == MatchFrom(atoms, k + 1, s, last)
       IN IF e # 0 THEN e ELSE MatchPlus(atoms, k, s, first, last - 1)

\* String.prototype.replace with a global pattern: the matches are taken
\* left to right, without overlap; every match consumes at least one
\* character of s
RECURSIVE RegExpReplace(_, _, _, _)
RegExpReplace(atoms, s, pos, placeholder) ==
  IF pos > Len(s) THEN <<>>
  ELSE LET e == MatchFrom(atoms, 1, s, pos)
       IN IF e # 0
          THEN placeholder \o RegExpReplace(atoms, s, e, placeholder)
          ELSE <<s[pos]>> \o RegExpReplace(atoms, s, pos + 1, placeholder)

(***************************************************************************)
(* replaceCredential: [out, err]; err is "SyntaxError" when the RegExp     *)
(* constructor throws.                                                     *)
(***************************************************************************)
replaceCredential(p, c, placeholder) ==
  IF c # <<>>
  THEN IF RegExpValid(c)
       THEN [out |-> RegExpReplace(RegExpAtoms(c), p, 1, placeholder),
             err |-> "none"]
       ELSE [out |-> p, err |-> "SyntaxError"]
  ELSE [out |-> p, err |-> "none"]

(***************************************************************************)
(* A recording definition (one recorded HTTP exchange):                    *)
(*   scope, path   strings                                                 *)
(*   reqheaders    [defined, entries]; an entry is [name, isArray, items], *)
(*                 a string value being the one element of items           *)
(*   rawHeaders    [defined, items]                                        *)
(*   body, response  JSON values [t, k, v]: t = "undefined", a string v    *)
(*                 (t = "string") or an object {k: v} (t = "object")       *)
(* Every editor yields [def, err]: the definition as the editor left it    *)
(* and the error it threw, "none" when it returned.                        *)
(***************************************************************************)
Ok(d) == [def |-> d, err |-> "none"]
Throw(d, e) == [def |-> d, err |-> e]
Then(r, Op(_)) == IF r.err # "none" THEN r ELSE Op(r.def)

Undefined == <<"undefined">>          \* the value `undefined` of a string
JsonUndefined == [t |-> "undefined", k |-> <<>>, v |-> <<>>]
JsonString(s) == [t |-> "string", k |-> <<>>, v |-> s]
JsonObject(key, s) == [t |-> "object", k |-> key, v |-> s]
StringHeader(n, s) == [name |-> n, isArray |-> FALSE, items |-> <<s>>]
ArrayHeader(n, ss) == [name |-> n, isArray |-> TRUE, items |-> ss]

\* value.toString() of a header value: an array is joined with ","
HeaderToString(entry) ==
  IF entry.isArray THEN Join(entry.items, <<",">>) ELSE entry.items[1]

IndexOf(s, ch) ==
  IF \E i \in 1..Len(s) : s[i] = ch
  THEN CHOOSE i \in 1..Len(s) : s[i] = ch /\ \A j \in 1..(i - 1) : s[j] # ch
  ELSE 0

HeaderIndex(def, n) ==
  IF def.reqheaders.defined
     /\ \E i \in 1..Len(def.reqheaders.entries) :
           def.reqheaders.entries[i].name = n
  THEN CHOOSE i \in 1..Len(def.reqheaders.entries) :
           def.reqheaders.entries[i].name = n
  ELSE 0

SetHeader(def, i, s) ==
  [def EXCEPT !.reqheaders.entries[i] =
      StringHeader(def.reqheaders.entries[i].name, s)]

(***************************************************************************)
(* JSON.stringify and JSON.parse on the JSON values of the model.          *)
(***************************************************************************)
Quote == "\""

JsonStringify(j) ==
  IF j.t = "string" THEN <<Quote>> \o j.v \o <<Quote>>
  ELSE <<"{", Quote>> \o j.k \o <<Quote, ":", Quote>> \o j.v \o <<Quote, "}">>

\* [ok, value]: ok is FALSE when JSON.parse throws SyntaxError.  Texts are
\* made of the characters of the model, so the only texts that parse are a
\* string literal and an object with one string member.
JsonParse(text) ==
  LET n == Len(text)
      isString == /\ n >= 2 /\ text[1] = Quote /\ text[n] = Quote
                  /\ \A i \in 2..(n - 1) : text[i] # Quote
      rest == SubSeq(text, 3, n)
      q1 == IndexOf(rest, Quote)                  \* closes the key
      afterKey == SubSeq(rest, q1 + 1, Len(rest))
      val == SubSeq(afterKey, 3, Len(afterKey))
      q2 == IndexOf(val, Quote)                   \* closes the value
      isObject == /\ n >= 7 /\ text[1] = "{" /\ text[2] = Quote
                  /\ q1 # 0
                  /\ Len(afterKey) >= 4
                  /\ afterKey[1] = ":" /\ afterKey[2] = Quote
                  /\ q2 # 0
                  /\ Len(val) = q2 + 1 /\ val[q2 + 1] = "}"
  IN IF isString
     THEN [ok |-> TRUE, value |-> JsonString(SubSeq(text, 2, n - 1))]
     ELSE IF isObject
     THEN [ok |-> TRUE,
           value |-> JsonObject(SubSeq(rest, 1, q1 - 1),
                                SubSeq(val, 1, q2 - 1))]
     ELSE [ok |-> FALSE, value |-> JsonUndefined]

(***************************************************************************)
(* new URL(origin + definition.path): pathname, search, hash and the       *)
(* searchParams list.  Paths of the model start with "/" and hold no       *)
(* character that the URL parser would percent-encode.                     *)
(***************************************************************************)
RECURSIVE Split(_, _)
Split(s, sep) ==
  LET i == IndexOf(s, sep)
  IN IF i = 0 THEN <<s>>
     ELSE <<SubSeq(s, 1, i - 1)>> \o Split(SubSeq(s, i + 1, Len(s)), sep)

\* the path state of the URL parser: "." and ".." segments are resolved
RECURSIVE DotSegments(_, _)
DotSegments(segs, out) ==
  IF segs = <<>> THEN out
  ELSE LET seg == Head(segs)
           last == Len(segs) = 1
           popped == IF out = <<>> THEN out ELSE SubSeq(out, 1, Len(out) - 1)
       IN IF seg = <<".", ".">>
          THEN DotSegments(Tail(segs),
                           IF last THEN Append(popped, <<>>) ELSE popped)
          ELSE IF seg = <<".">>
          THEN DotSegments(Tail(segs), IF last THEN Append(out, <<>>) ELSE out)
          ELSE DotSegments(Tail(segs), Append(out, seg))

\* rawPath is empty or starts with "/"
UrlPathname(rawPath) ==
  IF rawPath = <<>> THEN <<"/">>
  ELSE <<"/">> \o Join(DotSegments(Split(Tail(rawPath), "/"), <<>>), <<"/">>)

UrlParse(path) ==
  LET h == IndexOf(path, "#")
      beforeHash == IF h = 0 THEN path ELSE SubSeq(path, 1, h - 1)
      fragment == IF h = 0 THEN <<>> ELSE SubSeq(path, h + 1, Len(path))
      q == IndexOf(beforeHash, "?")
      rawPath == IF q = 0 THEN beforeHash ELSE SubSeq(beforeHash, 1, q - 1)
      query == IF q = 0 THEN <<>>
               ELSE SubSeq(beforeHash, q + 1, Len(beforeHash))
  IN [pathname |-> UrlPathname(rawPath),
      search |-> IF query = <<>> THEN <<>> ELSE <<"?">> \o query,
      hash |-> IF fragment = <<>> THEN <<>> ELSE <<"#">> \o fragment]

\* the pathname setter: the path of an http(s) URL always starts with "/"
UrlSetPathname(v) ==
  UrlPathname(IF v # <<>> /\ v[1] = "/" THEN v ELSE <<"/">> \o v)

\* application/x-www-form-urlencoded decoding and encoding of a character
UrlDecodeChar(c) == IF c = "+" THEN " " ELSE IF c = "%2B" THEN "+" ELSE c
UrlEncodeChar(c) == IF c = " " THEN "+" ELSE IF c = "+" THEN "%2B" ELSE c
UrlDecode(s) == [i \in 1..Len(s) |-> UrlDecodeChar(s[i])]
UrlEncode(s) == [i \in 1..Len(s) |-> UrlEncodeChar(s[i])]

\* url.searchParams: the list of decoded [key, value] pairs of the search
RECURSIVE PairsOf(_)
PairsOf(pieces) ==
  IF pieces = <<>> THEN <<>>
  ELSE LET piece == Head(pieces)
           eq == IndexOf(piece, "=")
           pair == IF eq = 0
                   THEN [key |-> UrlDecode(piece), value |-> <<>>]
                   ELSE [key |-> UrlDecode(SubSeq(piece, 1, eq - 1)),
                         value |-> UrlDecode(SubSeq(piece, eq + 1, Len(piece)))]
       IN (IF piece = <<>> THEN <<>> ELSE <<pair>>) \o PairsOf(Tail(pieces))

SearchParams(search) ==
  IF search = <<>> THEN <<>>
  ELSE PairsOf(Split(SubSeq(search, 2, Len(search)), "&"))

RECURSIVE SerializePairs(_)
SerializePairs(pairs) ==
  IF pairs = <<>> THEN <<>>
  ELSE UrlEncode(Head(pairs).key) \o <<"=">> \o UrlEncode(Head(pairs).value)
       \o (IF Len(pairs) > 1 THEN <<"&">> ELSE <<>>)
       \o SerializePairs(Tail(pairs))

\* the search of a URL whose searchParams were modified
SearchOf(pairs) == IF pairs = <<>> THEN <<>> ELSE <<"?">> \o SerializePairs(pairs)

SearchParamsHas(pairs, key) == \E i \in 1..Len(pairs) : pairs[i].key = key

SearchParamsGet(pairs, key) ==
  pairs[CHOOSE i \in 1..Len(pairs) :
           pairs[i].key = key /\ \A j \in 1..(i - 1) : pairs[j].key # key].value

\* searchParams.set: the first pair named key takes the value, the other
\* pairs named key are removed; a new pair is appended when there is none
SearchParamsSet(pairs, key, value) ==
  IF SearchParamsHas(pairs, key)
  THEN LET first == CHOOSE i \in 1..Len(pairs) :
                       pairs[i].key = key /\ \A j \in 1..(i - 1) : pairs[j].key # key
           RECURSIVE keep(_)
           keep(i) ==
             IF i > Len(pairs) THEN <<>>
             ELSE (IF i = first THEN <<[key |-> key, value |-> value]>>
                   ELSE IF pairs[i].key = key THEN <<>>
                   ELSE <<pairs[i]>>) \o keep(i + 1)
       IN keep(1)
  ELSE Append(pairs, [key |-> key, value |-> value])

(***************************************************************************)
(* The field editors.                                                      *)
(***************************************************************************)
AUTH_HEADER_NAME == <<"Authorization">>

\* the loop of replaceCredentialInHeaders over the entries that include the
\* credential; each key is assigned once, so the entry read is the one filtered
RECURSIVE HeadersLoop(_, _, _, _)
HeadersLoop(def, i, c, placeholder) ==
  IF i > Len(def.reqheaders.entries) THEN Ok(def)
  ELSE LET value == HeaderToString(def.reqheaders.entries[i])
           r == replaceCredential(value, c, placeholder)
       IN IF ~Includes(value, c) THEN HeadersLoop(def, i + 1, c, placeholder)
          ELSE IF r.err # "none" THEN Throw(def, r.err)
          ELSE HeadersLoop(SetHeader(def, i, r.out), i + 1, c, placeholder)

replaceCredentialInHeaders(def, c, placeholder) ==
  IF def.reqheaders.defined THEN HeadersLoop(def, 1, c, placeholder)
  ELSE Ok(def)

replaceCredentialInRawHeaders(def, c, placeholder) ==
  IF def.rawHeaders.defined
  THEN LET items == def.rawHeaders.items
           mapped == [i \in 1..Len(items) |->
                        replaceCredential(items[i], c, placeholder)]
       IN IF \E i \in 1..Len(items) : mapped[i].err # "none"
          THEN Throw(def, "SyntaxError")
          ELSE Ok([def EXCEPT !.rawHeaders.items =
                      [i \in 1..Len(items) |-> mapped[i].out]])
  ELSE Ok(def)

replaceCredentialInBody(def, c, placeholder) ==
  IF def.body.t # "undefined" /\ def.body # JsonString(<<>>)
  THEN LET text == JsonStringify(def.body)
           r == replaceCredential(text, c, placeholder)
           parsed == JsonParse(r.out)
       IN IF ~Includes(text, c) THEN Ok(def)
          ELSE IF r.err # "none" THEN Throw(def, r.err)
          ELSE IF ~parsed.ok THEN Throw(def, "SyntaxError")
          ELSE Ok([def EXCEPT !.body = parsed.value])
  ELSE Ok(def)

\* `if (definition.response)`: undefined and the empty string are falsy
replaceCredentialInResponse(def, c, placeholder) ==
  IF def.response.t # "undefined" /\ def.response # JsonString(<<>>)
  THEN LET r == replaceCredential(JsonStringify(def.response), c, placeholder)
           parsed == JsonParse(r.out)
       IN IF r.err # "none" THEN Throw(def, r.err)
          ELSE IF ~parsed.ok THEN Throw(def, "SyntaxError")
          ELSE Ok([def EXCEPT !.response = parsed.value])
  ELSE Ok(def)

replaceCredentialInScope(def, c, placeholder) ==
  IF Includes(def.scope, c)
  THEN LET r == replaceCredential(def.scope, c, placeholder)
       IN IF r.err # "none" THEN Throw(def, r.err)
          ELSE Ok([def EXCEPT !.scope = r.out])
  ELSE Ok(def)

\* the loop of replaceCredentialInQuery over the live searchParams list:
\* [pairs, dirty, err], dirty when searchParams.set has rewritten the search
RECURSIVE QueryLoop(_, _, _, _, _)
QueryLoop(pairs, i, dirty, c, placeholder) ==
  IF i > Len(pairs) THEN [pairs |-> pairs, dirty |-> dirty, err |-> "none"]
  ELSE LET r == replaceCredential(pairs[i].value, c, placeholder)
       IN IF ~Includes(pairs[i].value, c)
          THEN QueryLoop(pairs, i + 1, dirty, c, placeholder)
          ELSE IF r.err # "none"
          THEN [pairs |-> pairs, dirty |-> dirty, err |-> r.err]
          ELSE QueryLoop(SearchParamsSet(pairs, pairs[i].key, r.out),
                         i + 1, TRUE, c, placeholder)

replaceCredentialInQuery(def, c, placeholder) ==
  LET url == UrlParse(def.path)
      loop == QueryLoop(SearchParams(url.search), 1, FALSE, c, placeholder)
      search == IF loop.dirty THEN SearchOf(loop.pairs) ELSE url.search
  IN IF loop.err # "none" THEN Throw(def, loop.err)
     ELSE Ok([def EXCEPT !.path = url.pathname \o search \o url.hash])

replaceCredentialInPath(def, c, placeholder) ==
  LET url == UrlParse(def.path)
      r == replaceCredential(url.pathname, c, placeholder)
  IN IF Includes(url.pathname, c)
     THEN IF r.err # "none" THEN Throw(def, r.err)
          ELSE Ok([def EXCEPT !.path =
                     UrlSetPathname(r.out) \o url.search \o url.hash])
     ELSE Ok([def EXCEPT !.path = url.pathname \o url.search \o url.hash])

(***************************************************************************)
(* The scheme editors.  A scheme is [id, type, in, name, scheme]; name is  *)
(* Undefined when the API-key scheme declares none.                        *)
(***************************************************************************)
replaceApiKeyInHeader(def, sch, c, placeholder) ==
  LET i == HeaderIndex(def, sch.name)
      r == replaceCredential(HeaderToString(def.reqheaders.entries[i]),
                             c, placeholder)
  IN IF sch.name # Undefined /\ i # 0
     THEN IF r.err # "none" THEN Throw(def, r.err)
          ELSE replaceCredentialInHeaders(SetHeader(def, i, r.out),
                                          c, placeholder)
     ELSE replaceCredentialInHeaders(def, c, placeholder)

replaceApiKeyInBody(def, c, placeholder) ==
  replaceCredentialInBody(def, c, placeholder)

replaceApiKeyInPath(def, c, placeholder) ==
  replaceCredentialInPath(def, c, placeholder)

replaceApiKeyInQuery(def, sch, c, placeholder) ==
  LET url == UrlParse(def.path)
      pairs == SearchParams(url.search)
      set == SearchParamsSet(pairs, sch.name, placeholder)
  IN IF /\ sch.name # Undefined
        /\ SearchParamsHas(pairs, sch.name)
        /\ Includes(SearchParamsGet(pairs, sch.name), c)
     THEN replaceCredentialInQuery(
            [def EXCEPT !.path = url.pathname \o SearchOf(set) \o url.hash],
            c, placeholder)
     ELSE replaceCredentialInQuery(def, c, placeholder)

\* replaceApiKey with the path placement running the query editor as well
replaceApiKeyInPathAndQuery(def, sch, c, placeholder) ==
  IF sch.in = "header"
  THEN Then(replaceApiKeyInHeader(def, sch, c, placeholder),
            LAMBDA d : replaceCredentialInRawHeaders(d, c, placeholder))
  ELSE IF sch.in = "body" THEN replaceApiKeyInBody(def, c, placeholder)
  ELSE IF sch.in = "path"
  THEN Then(replaceApiKeyInPath(def, c, placeholder),
            LAMBDA d : replaceCredentialInQuery(d, c, placeholder))
  ELSE IF sch.in = "query" THEN replaceApiKeyInQuery(def, sch, c, placeholder)
  ELSE Ok(def)

replaceApiKey(def, sch, c, placeholder) ==
  IF sch.in = "header"
  THEN Then(replaceApiKeyInHeader(def, sch, c, placeholder),
            LAMBDA d : replaceCredentialInRawHeaders(d, c, placeholder))
  ELSE IF sch.in = "body" THEN replaceApiKeyInBody(def, c, placeholder)
  ELSE IF sch.in = "path" THEN replaceApiKeyInPath(def, c, placeholder)
  ELSE IF sch.in = "query" THEN replaceApiKeyInQuery(def, sch, c, placeholder)
  ELSE Ok(def)

replaceBasicAuth(def, placeholder) ==
  LET i == HeaderIndex(def, AUTH_HEADER_NAME)
  IN IF i # 0 THEN SetHeader(def, i, <<"Basic ">> \o placeholder) ELSE def

replaceBearerAuth(def, placeholder) ==
  LET i == HeaderIndex(def, AUTH_HEADER_NAME)
  IN IF i # 0 THEN SetHeader(def, i, <<"Bearer ">> \o placeholder) ELSE def

\* replaceCredentialInDefinition with the Digest case left without a throw
replaceCredentialInDefinitionSkippingDigest(def, sch, c, placeholder) ==
  LET edited ==
        IF sch.type = "apiKey" THEN replaceApiKey(def, sch, c, placeholder)
        ELSE IF sch.type = "http" /\ sch.scheme = "basic"
        THEN replaceCredentialInRawHeaders(replaceBasicAuth(def, placeholder),
                                           c, placeholder)
        ELSE IF sch.type = "http" /\ sch.scheme = "bearer"
        THEN replaceCredentialInRawHeaders(replaceBearerAuth(def, placeholder),
                                           c, placeholder)
        ELSE Ok(def)
  IN Then(edited, LAMBDA d : replaceCredentialInResponse(d, c, placeholder))

\* replaceCredentialInDefinition redacting the response before the dispatch
\* on the scheme
replaceCredentialInDefinitionResponseFirst(def, sch, c, placeholder) ==
  Then(replaceCredentialInResponse(def, c, placeholder),
       LAMBDA d :
         IF sch.type = "apiKey" THEN replaceApiKey(d, sch, c, placeholder)
         ELSE IF sch.type = "http" /\ sch.scheme = "basic"
         THEN replaceCredentialInRawHeaders(replaceBasicAuth(d, placeholder),
                                            c, placeholder)
         ELSE IF sch.type = "http" /\ sch.scheme = "bearer"
         THEN replaceCredentialInRawHeaders(replaceBearerAuth(d, placeholder),
                                            c, placeholder)
         ELSE IF sch.type = "http" /\ sch.scheme = "digest"
         THEN Throw(d, "UnexpectedError: Digest auth not implemented")
         ELSE Ok(d))

replaceCredentialInDefinition(def, sch, c, placeholder) ==
  LET edited ==
        IF sch.type = "apiKey" THEN replaceApiKey(def, sch, c, placeholder)
        ELSE IF sch.type = "http" /\ sch.scheme = "basic"
        THEN replaceCredentialInRawHeaders(replaceBasicAuth(def, placeholder),
                                           c, placeholder)
        ELSE IF sch.type = "http" /\ sch.scheme = "bearer"
        THEN replaceCredentialInRawHeaders(replaceBearerAuth(def, placeholder),
                                           c, placeholder)
        ELSE IF sch.type = "http" /\ sch.scheme = "digest"
        THEN Throw(def, "UnexpectedError: Digest auth not implemented")
        ELSE Ok(def)
  IN Then(edited, LAMBDA d : replaceCredentialInResponse(d, c, placeholder))

replaceParameterInDefinition(def, c, placeholder) ==
  LET r1 == replaceCredentialInHeaders(def, c, placeholder)
      r2 == Then(r1, LAMBDA d : replaceCredentialInRawHeaders(d, c, placeholder))
      r3 == Then(r2, LAMBDA d : replaceCredentialInBody(d, c, placeholder))
      r4 == Then(r3, LAMBDA d : replaceCredentialInResponse(d, c, placeholder))
      r5 == Then(r4, LAMBDA d : replaceCredentialInScope(d, c, placeholder))
      r6 == Then(r5, LAMBDA d : replaceCredentialInPath(d, c, placeholder))
  IN Then(r6, LAMBDA d : replaceCredentialInQuery(d, c, placeholder))

(***************************************************************************)
(* Placeholders and the per-definition entry points of nock.utils.         *)
(***************************************************************************)
HIDDEN_CREDENTIALS_PLACEHOLDER == <<"SECURITY_">>
HIDDEN_PARAMETERS_PLACEHOLDER == <<"PARAMS_">>

CredentialPlaceholder(sch) == HIDDEN_CREDENTIALS_PLACEHOLDER \o sch.id
ParameterPlaceholder(name) == HIDDEN_PARAMETERS_PLACEHOLDER \o name

\* a security value is [id, secret]; NoValue is `undefined`
NoValue == [id |-> Undefined, secret |-> <<>>]

removeCredentialsFromDefinition(def, sch, securityValue) ==
  IF securityValue = NoValue THEN Ok(def)
  ELSE replaceCredentialInDefinition(def, sch, securityValue.secret,
                                     CredentialPlaceholder(sch))

\* integration parameters are a sequence of [name, value]
RECURSIVE removeParamsFromDefinition(_, _)
removeParamsFromDefinition(def, params) ==
  IF params = <<>> THEN Ok(def)
  ELSE Then(replaceParameterInDefinition(
              def, Head(params).value, ParameterPlaceholder(Head(params).name)),
            LAMBDA d : removeParamsFromDefinition(d, Tail(params)))

(***************************************************************************)
(* Restoration: the placeholder of a scheme or parameter is substituted by *)
(* the secret wherever it is found in the exchange.                        *)
(***************************************************************************)
RECURSIVE LiteralReplace(_, _, _)
LiteralReplace(s, t, r) ==
  IF t = <<>> \/ Len(s) < Len(t) THEN s
  ELSE IF SubSeq(s, 1, Len(t)) = t
  THEN r \o LiteralReplace(SubSeq(s, Len(t) + 1, Len(s)), t, r)
  ELSE <<Head(s)>> \o LiteralReplace(Tail(s), t, r)

RestoreJson(j, placeholder, secret) ==
  [j EXCEPT !.k = LiteralReplace(@, placeholder, secret),
            !.v = LiteralReplace(@, placeholder, secret)]

RestoreDefinition(def, placeholder, secret) ==
  [scope |-> LiteralReplace(def.scope, placeholder, secret),
   path |-> LiteralReplace(def.path, placeholder, secret),
   reqheaders |->
     [defined |-> def.reqheaders.defined,
      entries |->
        [i \in 1..Len(def.reqheaders.entries) |->
           [def.reqheaders.entries[i] EXCEPT !.items =
              [n \in 1..Len(@) |->
                 LiteralReplace(@[n], placeholder, secret)]]]],
   rawHeaders |->
     [defined |-> def.rawHeaders.defined,
      items |-> [i \in 1..Len(def.rawHeaders.items) |->
                   LiteralReplace(def.rawHeaders.items[i], placeholder, secret)]],
   body |-> RestoreJson(def.body, placeholder, secret),
   response |-> RestoreJson(def.response, placeholder, secret)]

loadCredentialsToScope(def, sch, securityValue) ==
  IF securityValue = NoValue THEN def
  ELSE RestoreDefinition(def, CredentialPlaceholder(sch), securityValue.secret)

RECURSIVE loadParamsToScope(_, _)
loadParamsToScope(def, params) ==
  IF params = <<>> THEN def
  ELSE loadParamsToScope(
         RestoreDefinition(def, ParameterPlaceholder(Head(params).name),
                           Head(params).value),
         Tail(params))

(***************************************************************************)
(* The schemes and the recording definitions of one redaction.             *)
(***************************************************************************)
SchemeId == <<"s">>
ParamName == <<"p">>
KeyName == <<"k">>         \* the name an API-key scheme declares
OtherName == <<"o">>       \* a header or query name no scheme declares
OtherSecret == <<"t">>     \* the secret of another scheme
Origin == <<"https://", "h">>

ApiKeyScheme(place, n) ==
  [id |-> SchemeId, type |-> "apiKey", in |-> place, name |-> n,
   scheme |-> "none"]
HttpScheme(kind) ==
  [id |-> SchemeId, type |-> "http", in |-> "none", name |-> Undefined,
   scheme |-> kind]
\* stands for an integration parameter where a scheme is expected
Parameter ==
  [id |-> ParamName, type |-> "parameter", in |-> "none", name |-> Undefined,
   scheme |-> "none"]
NoScheme ==
  [id |-> Undefined, type |-> "none", in |-> "none", name |-> Undefined,
   scheme |-> "none"]

SecuritySchemes ==
  {ApiKeyScheme(place, KeyName) : place \in {"header", "body", "path", "query"}}
  \cup {ApiKeyScheme("header", Undefined), ApiKeyScheme("query", Undefined)}
  \cup {HttpScheme(kind) : kind \in {"basic", "bearer", "digest"}}

EmptyDefinition ==
  [scope |-> Origin,
   path |-> <<"/">>,
   reqheaders |-> [defined |-> FALSE, entries |-> <<>>],
   rawHeaders |-> [defined |-> FALSE, items |-> <<>>],
   body |-> JsonUndefined,
   response |-> JsonUndefined]

Headers(entries) == [defined |-> TRUE, entries |-> entries]
RawHeaders(items) == [defined |-> TRUE, items |-> items]

\* the definitions that carry the text s in one place, or in two
DefinitionsWith(s) ==
  LET E == EmptyDefinition
  IN {[E EXCEPT !.scope = Origin \o s],
      [E EXCEPT !.path = <<"/">> \o s],
      [E EXCEPT !.path = <<"/", "g", "/">> \o s \o <<"?", "o", "=", "t">>],
      [E EXCEPT !.path = <<"/", "g", "?", "k", "=">> \o s],
      [E EXCEPT !.path = <<"/", "g", "?", "o", "=">> \o s \o <<"#", "f">>],
      [E EXCEPT !.path = <<"/", "g", "?", "k", "=", "t", "&", "k", "=">> \o s],
      [E EXCEPT !.path = <<"/", "g", "#">> \o s],
      [E EXCEPT !.reqheaders = Headers(<<StringHeader(KeyName, s)>>)],
      [E EXCEPT !.reqheaders = Headers(<<StringHeader(OtherName, s)>>)],
      [E EXCEPT !.reqheaders =
         Headers(<<ArrayHeader(OtherName, <<s, OtherSecret>>)>>)],
      [E EXCEPT !.reqheaders =
         Headers(<<StringHeader(AUTH_HEADER_NAME, <<"Basic ">> \o s)>>)],
      [E EXCEPT !.reqheaders =
         Headers(<<StringHeader(AUTH_HEADER_NAME, <<"Bearer ">> \o OtherSecret),
                   StringHeader(OtherName, s)>>)],
      [E EXCEPT !.rawHeaders = RawHeaders(<<KeyName, s>>)],
      [E EXCEPT !.body = JsonString(s)],
      [E EXCEPT !.body = JsonObject(KeyName, s)],
      [E EXCEPT !.response = JsonObject(OtherName, s)],
      [E EXCEPT !.path = <<"/", "?", "k", "=">> \o s,
                !.response = JsonObject(OtherName, s)],
      [E EXCEPT !.path = <<"/", "g", "/">> \o s \o <<"?", "o", "=">> \o s,
                !.reqheaders = Headers(<<StringHeader(OtherName, s)>>),
                !.body = JsonObject(KeyName, s),
                !.response = JsonObject(OtherName, s)]}

\* a recorded path is in the form the URL parser serialises it in
Definitions ==
  {d \in UNION {DefinitionsWith(s) : s \in Payloads} :
     LET url == UrlParse(d.path)
     IN d.path = url.pathname \o url.search \o url.hash}

(***************************************************************************)
(* The state of a SuperfaceTest instance and of one call of run.           *)
(*   sfConfig       each component "undefined", "string" or "instance"     *)
(*   testCase       the components the payload of run carries              *)
(*   nockPath       nockConfig.path: "undefined", "" or "dir"              *)
(*   fixturesPath, recordingPath   "undefined", "" or a path               *)
(*   record         the test matches SUPERFACE_LIVE_API                    *)
(*   netConnect     "enabled" or "disabled" (nock)                         *)
(*   recorder       "idle", "recording" or "restored" (nock)               *)
(*   events         the calls made to the collaborators, in order          *)
(*   played         what recorder.play() returned: "none" before the call, *)
(*                  "undefined" or "list"                                  *)
(*   written        the recording file: [done, defs]                       *)
(*   result         what perform resolved to; returned: what run returned  *)
(***************************************************************************)
\* the constructor without the default of setupFixturesPath
NewSuperfaceTestWithoutDefault(sfConfig, testCase, nockPath) ==
  [sfConfig |-> sfConfig,
   testCase |-> testCase,
   nockPath |-> nockPath,
   fixturesPath |-> nockPath,
   recordingPath |-> "undefined",
   record |-> FALSE,
   netConnect |-> "enabled",
   recorder |-> "idle",
   events |-> <<>>,
   played |-> "none",
   mapLocal |-> "unknown",
   written |-> [done |-> FALSE, defs |-> <<>>],
   result |-> "none",
   returned |-> "none"]

NewSuperfaceTest(sfConfig, testCase, nockPath) ==
  [sfConfig |-> sfConfig,
   testCase |-> testCase,
   nockPath |-> nockPath,
   fixturesPath |-> IF nockPath = "undefined" THEN "cwd/nock" ELSE nockPath,
   recordingPath |-> "undefined",
   record |-> FALSE,
   netConnect |-> "enabled",
   recorder |-> "idle",
   events |-> <<>>,
   played |-> "none",
   mapLocal |-> "unknown",
   written |-> [done |-> FALSE, defs |-> <<>>],
   result |-> "none",
   returned |-> "none"]

AllInstances ==
  [client |-> "instance", profile |-> "instance", provider |-> "instance",
   useCase |-> "instance"]
EmptyPayload ==
  [client |-> "undefined", profile |-> "undefined", provider |-> "undefined",
   useCase |-> "undefined"]

NoRun == NewSuperfaceTest(AllInstances, EmptyPayload, "undefined")

NoResult == [out |-> <<>>, err |-> "none"]

\* the loops of a pass before its first iteration
FirstCursor == [i |-> 1, k |-> 0]
NoConfig ==
  [securitySchemes |-> <<>>, securityValues |-> <<>>,
   integrationParameters |-> <<>>]

\* the redaction of one definition for a scheme, or for a parameter
Redact(def, sch, c) ==
  IF sch.type = "parameter"
  THEN replaceParameterInDefinition(def, c, ParameterPlaceholder(sch.id))
  ELSE replaceCredentialInDefinition(def, sch, c, CredentialPlaceholder(sch))

Restore(def, sch, c) ==
  IF sch.type = "parameter"
  THEN RestoreDefinition(def, ParameterPlaceholder(sch.id), c)
  ELSE RestoreDefinition(def, CredentialPlaceholder(sch), c)

(***************************************************************************)
(* SpecCredential: replaceCredential on every payload and credential.      *)
(***************************************************************************)
InitCredential ==
  /\ cursor = FirstCursor
  /\ calls = <<>>
  /\ pc = "start"
  /\ payload \in Payloads
  /\ credential \in Secrets
  /\ replaced = NoResult
  /\ definition = EmptyDefinition
  /\ original = EmptyDefinition
  /\ redacted = EmptyDefinition
  /\ scheme = NoScheme
  /\ thrown = "none"
  /\ passes = 0
  /\ definitions = <<>>
  /\ recorded = <<>>
  /\ config = NoConfig
  /\ run = NoRun

ReplaceCredential ==
  /\ pc = "start"
  /\ replaced' = replaceCredential(payload, credential,
                                   HIDDEN_CREDENTIALS_PLACEHOLDER)
  /\ pc' = "replaced"
  /\ UNCHANGED <<cursor, calls,
                 payload, credential, definition, original, redacted, scheme,
                 thrown, passes, definitions, recorded, config, run>>

NextCredential == ReplaceCredential

SpecCredential == InitCredential /\ [][NextCredential]_vars

(***************************************************************************)
(* SpecDefinition: one definition is redacted for a scheme or a parameter, *)
(* then redacted a second time or restored.                                *)
(***************************************************************************)
InitDefinition ==
  /\ cursor = FirstCursor
  /\ calls = <<>>
  /\ pc = "start"
  /\ payload = <<>>
  /\ credential \in Secrets
  /\ replaced = NoResult
  /\ definition \in Definitions
  /\ original = definition
  /\ redacted = definition
  /\ scheme = NoScheme
  /\ thrown = "none"
  /\ passes = 0
  /\ definitions = <<>>
  /\ recorded = <<>>
  /\ config = NoConfig
  /\ run = NoRun

RedactDefinition ==
  /\ pc = "start"
  /\ \E sch \in SecuritySchemes \cup {Parameter} :
        \E r \in {Redact(definition, sch, credential)} :
           /\ scheme' = sch
           /\ definition' = r.def
           /\ redacted' = r.def
           /\ thrown' = r.err
  /\ passes' = 1
  /\ pc' = "redacted"
  /\ UNCHANGED <<cursor, calls,
                 payload, credential, replaced, original, definitions,
                 recorded, config, run>>

RedactAgain ==
  /\ pc = "redacted"
  /\ thrown = "none"
  /\ \E r \in {Redact(definition, scheme, credential)} :
        /\ definition' = r.def
        /\ thrown' = r.err
  /\ passes' = 2
  /\ pc' = "again"
  /\ UNCHANGED <<cursor, calls,
                 payload, credential, replaced, original, redacted, scheme,
                 definitions, recorded, config, run>>

RestoreDefinitionStep ==
  /\ pc = "redacted"
  /\ thrown = "none"
  /\ definition' = Restore(definition, scheme, credential)
  /\ pc' = "restored"
  /\ UNCHANGED <<cursor, calls,
                 payload, credential, replaced, original, redacted, scheme,
                 thrown, passes, definitions, recorded, config, run>>

NextDefinition == RedactDefinition \/ RedactAgain \/ RestoreDefinitionStep

SpecDefinition == InitDefinition /\ [][NextDefinition]_vars

(***************************************************************************)
(* The passes over a list of exchanges.  An element of the list is         *)
(* [isString, def]: isString marks a transcript element that the           *)
(* interception library left as unparsed text.                             *)
(***************************************************************************)
Structured(d) == [isString |-> FALSE, def |-> d]
Unparsed == [isString |-> TRUE, def |-> EmptyDefinition]

\* assertsDefinitionsAreNotStrings looking at the first element only
assertsFirstDefinitionIsNotString(defs) ==
  Len(defs) > 0 /\ defs[1].isString

\* TRUE when it throws UnexpectedError('definition is a string, not object')
assertsDefinitionsAreNotStrings(defs) ==
  \E i \in 1..Len(defs) : defs[i].isString

\* find taking the first declared value, whatever its id
FindFirstSecurityValue(securityValues, sch) ==
  IF securityValues = <<>> THEN NoValue ELSE securityValues[1]

\* securityValues.find(val => val.id === scheme.id)
FindSecurityValue(securityValues, sch) ==
  IF \E i \in 1..Len(securityValues) : securityValues[i].id = sch.id
  THEN securityValues[CHOOSE i \in 1..Len(securityValues) :
                        /\ securityValues[i].id = sch.id
                        /\ \A j \in 1..(i - 1) : securityValues[j].id # sch.id]
  ELSE NoValue

\* the inner loop of removeCredentials over the schemes, from scheme k on
RECURSIVE RemoveSchemes(_, _, _)
RemoveSchemes(def, cfg, k) ==
  IF k > Len(cfg.securitySchemes) THEN Ok(def)
  ELSE Then(removeCredentialsFromDefinition(
              def, cfg.securitySchemes[k],
              FindSecurityValue(cfg.securityValues, cfg.securitySchemes[k])),
            LAMBDA d : RemoveSchemes(d, cfg, k + 1))

RemoveFromDefinition(def, cfg) ==
  Then(removeParamsFromDefinition(def, cfg.integrationParameters),
       LAMBDA d : RemoveSchemes(d, cfg, 1))

\* removeCredentials from definition i on: [defs, err]; the definitions are
\* edited in place, so a throw leaves the edits made so far
RECURSIVE RemoveLoop(_, _, _)
RemoveNext(defs, cfg, i, r) ==
  IF r.err # "none"
  THEN [defs |-> [defs EXCEPT ![i] = Structured(r.def)], err |-> r.err]
  ELSE RemoveLoop([defs EXCEPT ![i] = Structured(r.def)], cfg, i + 1)

RemoveLoop(defs, cfg, i) ==
  IF i > Len(defs) THEN [defs |-> defs, err |-> "none"]
  ELSE RemoveNext(defs, cfg, i, RemoveFromDefinition(defs[i].def, cfg))

removeCredentials(defs, cfg) == RemoveLoop(defs, cfg, 1)

RECURSIVE LoadSchemes(_, _, _)
LoadSchemes(def, cfg, k) ==
  IF k > Len(cfg.securitySchemes) THEN def
  ELSE LoadSchemes(
         loadCredentialsToScope(
           def, cfg.securitySchemes[k],
           FindSecurityValue(cfg.securityValues, cfg.securitySchemes[k])),
         cfg, k + 1)

loadCredentials(scopes, cfg) ==
  [i \in 1..Len(scopes) |->
     Structured(LoadSchemes(
       loadParamsToScope(scopes[i].def, cfg.integrationParameters), cfg, 1))]

(***************************************************************************)
(* SpecPass: removeCredentials on a list of exchanges.                     *)
(***************************************************************************)
MaxDefinitions == 2    \* longest list of exchanges
MaxSchemes == 2        \* longest list of security schemes

SecondId == <<"r">>    \* the id of a second scheme

PassSecrets == {<<>>, <<"a">>, MetaSecret}

PassDefinitions ==
  LET E == EmptyDefinition
  IN {[E EXCEPT !.path = <<"/", "g", "?", "k", "=", "a">>,
                !.response = JsonObject(OtherName, <<"a">>)],
      [E EXCEPT !.path = <<"/", "g", "/">> \o MetaSecret,
                !.body = JsonObject(KeyName, OtherSecret)],
      [E EXCEPT !.reqheaders =
         Headers(<<StringHeader(AUTH_HEADER_NAME, <<"Basic ", "a">>)>>),
                !.rawHeaders = RawHeaders(<<KeyName, <<"a">>>>)],
      [E EXCEPT !.body = JsonObject(KeyName, MetaSecret)]}

PassSchemes ==
  {ApiKeyScheme("query", KeyName), ApiKeyScheme("body", KeyName),
   HttpScheme("basic"), HttpScheme("digest")}

SeqsUpTo(S, n) == UNION {[1..k -> S] : k \in 0..n}

\* the schemes after the first one have the id SecondId
SchemeLists ==
  {[k \in 1..Len(l) |-> IF k = 1 THEN l[k] ELSE [l[k] EXCEPT !.id = SecondId]]
     : l \in SeqsUpTo(PassSchemes, MaxSchemes)}

\* the values declared for a list of schemes: none or one for each scheme
ValueLists(schemes) ==
  LET first == {<<>>} \cup {<<[id |-> SchemeId, secret |-> c]>> : c \in PassSecrets}
      second == {<<>>, <<[id |-> SecondId, secret |-> OtherSecret]>>}
  IN IF Len(schemes) = 0 THEN {<<>>}
     ELSE IF Len(schemes) = 1 THEN first
     ELSE {v \o w : v \in first, w \in second}

ParameterLists ==
  {<<>>} \cup {<<[name |-> ParamName, value |-> c]>> : c \in PassSecrets}

Configs ==
  UNION {{[securitySchemes |-> l, securityValues |-> v,
           integrationParameters |-> ps]
            : v \in ValueLists(l), ps \in ParameterLists}
         : l \in SchemeLists}

DefinitionLists ==
  {[i \in 1..Len(l) |-> Structured(l[i])]
     : l \in SeqsUpTo(PassDefinitions, MaxDefinitions)}

InitPass ==
  /\ cursor = FirstCursor
  /\ calls = <<>>
  /\ pc = "start"
  /\ payload = <<>>
  /\ credential = <<>>
  /\ replaced = NoResult
  /\ definition = EmptyDefinition
  /\ original = EmptyDefinition
  /\ redacted = EmptyDefinition
  /\ scheme = NoScheme
  /\ thrown = "none"
  /\ passes = 0
  /\ definitions \in DefinitionLists
  /\ recorded = definitions
  /\ config \in Configs
  /\ run = NoRun

RemoveCredentials ==
  /\ pc = "start"
  /\ \E r \in {removeCredentials(definitions, config)} :
        /\ definitions' = r.defs
        /\ thrown' = r.err
  /\ passes' = 1
  /\ pc' = "removed"
  /\ UNCHANGED <<cursor, calls,
                 payload, credential, replaced, definition, original, redacted,
                 scheme, recorded, config, run>>

NextPass == RemoveCredentials

SpecPass == InitPass /\ [][NextPass]_vars

(***************************************************************************)
(* SpecOrder: the loops of removeCredentials and of loadCredentials, one   *)
(* call of a per-exchange function at a time.  The recording is redacted   *)
(* and the redacted list is then loaded with the same configuration, as a  *)
(* recorded test later replayed.                                           *)
(***************************************************************************)
OrderDefinitions ==
  LET E == EmptyDefinition
  IN {[E EXCEPT !.path = <<"/", "g", "?", "k", "=", "a">>,
                !.response = JsonObject(OtherName, <<"a">>)],
      [E EXCEPT !.reqheaders =
         Headers(<<StringHeader(AUTH_HEADER_NAME, <<"Basic ", "a">>)>>),
                !.rawHeaders = RawHeaders(<<KeyName, OtherSecret>>)]}

OrderDefinitionLists ==
  {[i \in 1..Len(l) |-> Structured(l[i])]
     : l \in SeqsUpTo(OrderDefinitions, MaxDefinitions)}

OrderSchemes ==
  {ApiKeyScheme("query", KeyName), HttpScheme("basic"), HttpScheme("digest")}

\* the values declared: one for each id, none for the first id, or none
OrderValueLists ==
  {<<[id |-> SchemeId, secret |-> <<"a">>],
     [id |-> SecondId, secret |-> OtherSecret]>>,
   <<[id |-> SecondId, secret |-> OtherSecret]>>,
   <<>>}

\* the parameter, if any, has the value of the first scheme's secret or is
\* the text "+"
OrderConfigs ==
  {[securitySchemes |-> l,
    securityValues |-> v,
    integrationParameters |-> ps]
     : l \in {x \in SchemeLists : \A k \in 1..Len(x) :
                 [x[k] EXCEPT !.id = SchemeId] \in OrderSchemes},
       v \in OrderValueLists,
       ps \in {<<>>, <<[name |-> ParamName, value |-> <<"a">>]>>,
               <<[name |-> ParamName, value |-> <<"+">>]>>}}

ParamsCall(pass, i) == [pass |-> pass, op |-> "params", def |-> i, scheme |-> 0]
SchemeCall(pass, i, k) == [pass |-> pass, op |-> "scheme", def |-> i, scheme |-> k]

\* the end of one iteration of the inner loop: the next scheme, or the next
\* exchange when the schemes are exhausted
Advance(cur, cfg) ==
  IF cur.k < Len(cfg.securitySchemes)
  THEN [cur EXCEPT !.k = @ + 1]
  ELSE [i |-> cur.i + 1, k |-> 0]

InitOrder ==
  /\ cursor = FirstCursor
  /\ calls = <<>>
  /\ pc = "remove"
  /\ payload = <<>>
  /\ credential = <<>>
  /\ replaced = NoResult
  /\ definition = EmptyDefinition
  /\ original = EmptyDefinition
  /\ redacted = EmptyDefinition
  /\ scheme = NoScheme
  /\ thrown = "none"
  /\ passes = 0
  /\ definitions \in OrderDefinitionLists
  /\ recorded = definitions
  /\ config \in OrderConfigs
  /\ run = NoRun

\* one call made by removeCredentials, the schemes before the parameters
RemoveStepSchemesFirst ==
  /\ pc = "remove"
  /\ cursor.i <= Len(definitions)
  /\ IF cursor.k < Len(config.securitySchemes)
     THEN /\ \E r \in {removeCredentialsFromDefinition(
                          definitions[cursor.i].def,
                          config.securitySchemes[cursor.k + 1],
                          FindSecurityValue(config.securityValues,
                                            config.securitySchemes[cursor.k + 1]))} :
                /\ definitions' = [definitions EXCEPT ![cursor.i] = Structured(r.def)]
                /\ thrown' = r.err
                /\ pc' = IF r.err # "none" THEN "failed" ELSE "remove"
          /\ calls' = Append(calls, SchemeCall("remove", cursor.i, cursor.k + 1))
     ELSE /\ \E r \in {removeParamsFromDefinition(definitions[cursor.i].def,
                                                  config.integrationParameters)} :
                /\ definitions' = [definitions EXCEPT ![cursor.i] = Structured(r.def)]
                /\ thrown' = r.err
                /\ pc' = IF r.err # "none" THEN "failed" ELSE "remove"
          /\ calls' = Append(calls, ParamsCall("remove", cursor.i))
  /\ cursor' = Advance(cursor, config)
  /\ UNCHANGED <<payload, credential, replaced, definition, original, redacted,
                 scheme, passes, recorded, config, run>>

\* one call made by removeCredentials, every call reading the first exchange
RemoveStepReadingFirst ==
  /\ pc = "remove"
  /\ cursor.i <= Len(definitions)
  /\ IF cursor.k = 0
     THEN /\ \E r \in {removeParamsFromDefinition(definitions[1].def,
                                                  config.integrationParameters)} :
                /\ definitions' = [definitions EXCEPT ![cursor.i] = Structured(r.def)]
                /\ thrown' = r.err
                /\ pc' = IF r.err # "none" THEN "failed" ELSE "remove"
          /\ calls' = Append(calls, ParamsCall("remove", cursor.i))
     ELSE /\ \E r \in {removeCredentialsFromDefinition(
                          definitions[1].def,
                          config.securitySchemes[cursor.k],
                          FindSecurityValue(config.securityValues,
                                            config.securitySchemes[cursor.k]))} :
                /\ definitions' = [definitions EXCEPT ![cursor.i] = Structured(r.def)]
                /\ thrown' = r.err
                /\ pc' = IF r.err # "none" THEN "failed" ELSE "remove"
          /\ calls' = Append(calls, SchemeCall("remove", cursor.i, cursor.k))
  /\ cursor' = Advance(cursor, config)
  /\ UNCHANGED <<payload, credential, replaced, definition, original, redacted,
                 scheme, passes, recorded, config, run>>

\* one call made by removeCredentials: removeParamsFromDefinition at the head
\* of the iteration for an exchange, then removeCredentialsFromDefinition for
\* each scheme; a throw ends the pass
RemoveStep ==
  /\ pc = "remove"
  /\ cursor.i <= Len(definitions)
  /\ IF cursor.k = 0
     THEN /\ \E r \in {removeParamsFromDefinition(definitions[cursor.i].def,
                                                  config.integrationParameters)} :
                /\ definitions' = [definitions EXCEPT ![cursor.i] = Structured(r.def)]
                /\ thrown' = r.err
                /\ pc' = IF r.err # "none" THEN "failed" ELSE "remove"
          /\ calls' = Append(calls, ParamsCall("remove", cursor.i))
     ELSE /\ \E r \in {removeCredentialsFromDefinition(
                          definitions[cursor.i].def,
                          config.securitySchemes[cursor.k],
                          FindSecurityValue(config.securityValues,
                                            config.securitySchemes[cursor.k]))} :
                /\ definitions' = [definitions EXCEPT ![cursor.i] = Structured(r.def)]
                /\ thrown' = r.err
                /\ pc' = IF r.err # "none" THEN "failed" ELSE "remove"
          /\ calls' = Append(calls, SchemeCall("remove", cursor.i, cursor.k))
  /\ cursor' = Advance(cursor, config)
  /\ UNCHANGED <<payload, credential, replaced, definition, original, redacted,
                 scheme, passes, recorded, config, run>>

\* removeCredentials returns; the redacted list is what a replay loads
RemoveReturn ==
  /\ pc = "remove"
  /\ cursor.i > Len(definitions)
  /\ pc' = "load"
  /\ cursor' = FirstCursor
  /\ passes' = 1
  /\ UNCHANGED <<calls, payload, credential, replaced, definition, original,
                 redacted, scheme, thrown, definitions, recorded, config, run>>

\* one call made by loadCredentials: loadParamsToScope at the head of the
\* iteration for a scope, then loadCredentialsToScope for each scheme
LoadStep ==
  /\ pc = "load"
  /\ cursor.i <= Len(definitions)
  /\ IF cursor.k = 0
     THEN /\ definitions' =
               [definitions EXCEPT ![cursor.i] =
                  Structured(loadParamsToScope(@.def, config.integrationParameters))]
          /\ calls' = Append(calls, ParamsCall("load", cursor.i))
     ELSE /\ definitions' =
               [definitions EXCEPT ![cursor.i] =
                  Structured(loadCredentialsToScope(
                    @.def, config.securitySchemes[cursor.k],
                    FindSecurityValue(config.securityValues,
                                      config.securitySchemes[cursor.k])))]
          /\ calls' = Append(calls, SchemeCall("load", cursor.i, cursor.k))
  /\ cursor' = Advance(cursor, config)
  /\ UNCHANGED <<pc, payload, credential, replaced, definition, original,
                 redacted, scheme, thrown, passes, recorded, config, run>>

LoadReturn ==
  /\ pc = "load"
  /\ cursor.i > Len(definitions)
  /\ pc' = "loaded"
  /\ UNCHANGED <<cursor, calls, payload, credential, replaced, definition,
                 original, redacted, scheme, thrown, passes, definitions,
                 recorded, config, run>>

NextOrder == RemoveStep \/ RemoveReturn \/ LoadStep \/ LoadReturn

SpecOrder == InitOrder /\ [][NextOrder]_vars

(***************************************************************************)
(* Spec: one call of SuperfaceTest.run, from the state the constructor     *)
(* leaves.  What the collaborators answer (the live flag, the recording    *)
(* file, the recorder, the use case, the hooks) is chosen where run asks.  *)
(***************************************************************************)
ComponentStates == {"undefined", "string", "instance"}

\* assertsPreparedConfig with the use case checked before the other components
assertsPreparedConfigUseCaseFirst(sf) ==
  IF sf.useCase = "undefined" THEN "ComponentUndefinedError: UseCase"
  ELSE IF sf.useCase = "string" THEN "InstanceMissingError: UseCase"
  ELSE IF sf.client = "undefined" THEN "ComponentUndefinedError: Client"
  ELSE IF sf.profile = "undefined" THEN "ComponentUndefinedError: Profile"
  ELSE IF sf.profile = "string" THEN "InstanceMissingError: Profile"
  ELSE IF sf.provider = "undefined" THEN "ComponentUndefinedError: Provider"
  ELSE IF sf.provider = "string" THEN "InstanceMissingError: Provider"
  ELSE "none"

\* TRUE-branch results of assertsPreparedConfig: the error it throws, or "none"
assertsPreparedConfig(sf) ==
  IF sf.client = "undefined" THEN "ComponentUndefinedError: Client"
  ELSE IF sf.profile = "undefined" THEN "ComponentUndefinedError: Profile"
  ELSE IF sf.profile = "string" THEN "InstanceMissingError: Profile"
  ELSE IF sf.provider = "undefined" THEN "ComponentUndefinedError: Provider"
  ELSE IF sf.provider = "string" THEN "InstanceMissingError: Provider"
  ELSE IF sf.useCase = "undefined" THEN "ComponentUndefinedError: UseCase"
  ELSE IF sf.useCase = "string" THEN "InstanceMissingError: UseCase"
  ELSE "none"

prepareSuperfaceConfig(sf, payload_) ==
  [c \in DOMAIN sf |-> IF payload_[c] # "undefined" THEN payload_[c] ELSE sf[c]]

\* [sfConfig, err]
setupSuperfaceConfig(sf) ==
  LET resolve(x) == IF x = "string" THEN "instance" ELSE x
      sf3 == [sf EXCEPT !.client = "instance",
                        !.profile = resolve(@),
                        !.provider = resolve(@)]
  IN IF sf3.useCase = "string"
     THEN IF sf3.profile = "undefined"
          THEN [sfConfig |-> sf3, err |-> "ComponentUndefinedError: Profile"]
          ELSE [sfConfig |-> [sf3 EXCEPT !.useCase = "instance"], err |-> "none"]
     ELSE [sfConfig |-> sf3, err |-> "none"]

(***************************************************************************)
(* SpecConfig: assertsPreparedConfig on a configuration payload.  The      *)
(* client is a SuperfaceClient or undefined; the other components are an   *)
(* instance, a string or undefined.                                        *)
(***************************************************************************)
ConfigPayloads ==
  [client : {"undefined", "instance"}, profile : ComponentStates,
   provider : ComponentStates, useCase : ComponentStates]

InitConfig ==
  /\ cursor = FirstCursor
  /\ calls = <<>>
  /\ pc = "config"
  /\ payload = <<>>
  /\ credential = <<>>
  /\ replaced = NoResult
  /\ definition = EmptyDefinition
  /\ original = EmptyDefinition
  /\ redacted = EmptyDefinition
  /\ scheme = NoScheme
  /\ thrown = "none"
  /\ passes = 0
  /\ definitions = <<>>
  /\ recorded = <<>>
  /\ config = NoConfig
  /\ \E sf \in ConfigPayloads :
        run = NewSuperfaceTest(sf, EmptyPayload, "undefined")

AssertsPreparedConfig ==
  /\ pc = "config"
  /\ thrown' = assertsPreparedConfig(run.sfConfig)
  /\ pc' = "asserted"
  /\ UNCHANGED <<cursor, calls,
                 payload, credential, replaced, definition, original, redacted,
                 scheme, passes, definitions, recorded, config, run>>

NextConfig == AssertsPreparedConfig

SpecConfig == InitConfig /\ [][NextConfig]_vars

HookKinds == {"none", "keeps", "edits", "throws"}

\* what a hook that edits the exchanges does to them
HookEdit(defs) ==
  [i \in 1..Len(defs) |->
     IF defs[i].isString THEN defs[i]
     ELSE Structured([defs[i].def EXCEPT !.scope = <<"edited">>])]

RunDefinitions ==
  LET E == EmptyDefinition
  IN {[E EXCEPT !.path = <<"/", "?", "k", "=", "a">>,
                !.response = JsonObject(OtherName, <<"a">>)],
      [E EXCEPT !.body = JsonObject(KeyName, MetaSecret)]}

\* what recorder.play() can return, besides undefined
PlayedLists ==
  SeqsUpTo({Structured(d) : d \in RunDefinitions} \cup {Unparsed}, MaxDefinitions)

\* what a recording file can hold
LoadedLists ==
  LET E == EmptyDefinition
  IN SeqsUpTo({Structured([E EXCEPT !.path =
                  <<"/", "?", "k", "=">> \o CredentialPlaceholder(ApiKeyScheme("query", KeyName))]),
               Structured([E EXCEPT !.response =
                  JsonObject(OtherName, ParameterPlaceholder(ParamName))])},
              MaxDefinitions)

RunConfigs ==
  {NoConfig} \cup
  {[securitySchemes |-> <<sch>>,
    securityValues |-> v,
    integrationParameters |-> ps]
     : sch \in {ApiKeyScheme("query", KeyName), ApiKeyScheme("body", KeyName),
                HttpScheme("digest")},
       v \in {<<>>, <<[id |-> SchemeId, secret |-> <<"a">>]>>},
       ps \in {<<>>, <<[name |-> ParamName, value |-> MetaSecret]>>}}

Init ==
  /\ cursor = FirstCursor
  /\ calls = <<>>
  /\ pc = "run"
  /\ payload = <<>>
  /\ credential = <<>>
  /\ replaced = NoResult
  /\ definition = EmptyDefinition
  /\ original = EmptyDefinition
  /\ redacted = EmptyDefinition
  /\ scheme = NoScheme
  /\ thrown = "none"
  /\ passes = 0
  /\ definitions = <<>>
  /\ recorded = <<>>
  /\ \/ /\ config = NoConfig
        /\ \E client \in {"undefined", "instance"},
              profile \in ComponentStates, provider \in ComponentStates,
              useCase \in ComponentStates,
              payloadUseCase \in {"undefined", "string"} :
              run = NewSuperfaceTest(
                      [client |-> client, profile |-> profile,
                       provider |-> provider, useCase |-> useCase],
                      [EmptyPayload EXCEPT !.useCase = payloadUseCase],
                      "undefined")
     \/ /\ config \in RunConfigs
        /\ \E nockPath \in {"undefined", "", "dir"} :
              run = NewSuperfaceTest(AllInstances, EmptyPayload, nockPath)

Fail(e) == thrown' = e /\ pc' = "failed"

Call(event) == [run EXCEPT !.events = Append(@, event)]

\* prepareSuperfaceConfig and setupSuperfaceConfig
SetupSuperfaceConfig ==
  /\ pc = "run"
  /\ LET r == setupSuperfaceConfig(
                prepareSuperfaceConfig(run.sfConfig, run.testCase))
     IN /\ run' = [run EXCEPT !.sfConfig = r.sfConfig]
        /\ IF r.err # "none" THEN Fail(r.err)
           ELSE thrown' = thrown /\ pc' = "assertsPreparedConfig"
  /\ UNCHANGED <<cursor, calls,
                 payload, credential, replaced, definition, original, redacted,
                 scheme, passes, definitions, recorded, config>>

\* run with isMapLocal asked before assertsPreparedConfig
CheckConfigMapFirst ==
  /\ pc = "assertsPreparedConfig"
  /\ \E mapLocal \in BOOLEAN, live \in BOOLEAN :
        IF ~mapLocal
        THEN Fail("MapUndefinedError")
             /\ run' = [run EXCEPT !.mapLocal = "notLocal"]
        ELSE IF assertsPreparedConfig(run.sfConfig) # "none"
        THEN Fail(assertsPreparedConfig(run.sfConfig))
             /\ run' = [run EXCEPT !.mapLocal = "local"]
        ELSE IF run.fixturesPath \in {"undefined", ""}
        THEN Fail("FixturesPathUndefinedError")
             /\ run' = [run EXCEPT !.mapLocal = "local"]
        ELSE /\ run' = [run EXCEPT !.recordingPath = "recording.json",
                                   !.record = live,
                                   !.mapLocal = "local"]
             /\ thrown' = thrown
             /\ pc' = "startRecording"
  /\ UNCHANGED <<cursor, calls,
                 payload, credential, replaced, definition, original, redacted,
                 scheme, passes, definitions, recorded, config>>

\* assertsPreparedConfig, isMapLocal, setupRecordingPath and matchWildCard;
\* run.mapLocal keeps what isMapLocal answered
CheckConfig ==
  /\ pc = "assertsPreparedConfig"
  /\ \E mapLocal \in BOOLEAN, live \in BOOLEAN :
        IF assertsPreparedConfig(run.sfConfig) # "none"
        THEN Fail(assertsPreparedConfig(run.sfConfig)) /\ run' = run
        ELSE IF ~mapLocal
        THEN Fail("MapUndefinedError")
             /\ run' = [run EXCEPT !.mapLocal = "notLocal"]
        ELSE IF run.fixturesPath \in {"undefined", ""}
        THEN Fail("FixturesPathUndefinedError")
             /\ run' = [run EXCEPT !.mapLocal = "local"]
        ELSE /\ run' = [run EXCEPT !.recordingPath = "recording.json",
                                   !.record = live,
                                   !.mapLocal = "local"]
             /\ thrown' = thrown
             /\ pc' = "startRecording"
  /\ UNCHANGED <<cursor, calls,
                 payload, credential, replaced, definition, original, redacted,
                 scheme, passes, definitions, recorded, config>>

\* startRecording without the check for a recording of no exchanges
StartRecordingLoadingEmpty ==
  /\ pc = "startRecording"
  /\ IF run.recordingPath \in {"undefined", ""}
     THEN Fail("RecordingPathUndefinedError")
          /\ UNCHANGED <<run, definitions, recorded>>
     ELSE IF run.record
     THEN /\ run' = [Call("recorder.rec") EXCEPT !.recorder = "recording"]
          /\ thrown' = thrown
          /\ pc' = "perform"
          /\ UNCHANGED <<definitions, recorded>>
     ELSE \E recordingExists \in BOOLEAN, scopes \in LoadedLists :
            IF ~recordingExists
            THEN Fail("RecordingsNotFoundError")
                 /\ UNCHANGED <<run, definitions, recorded>>
            ELSE IF assertsPreparedConfig(run.sfConfig) # "none"
            THEN Fail(assertsPreparedConfig(run.sfConfig))
                 /\ UNCHANGED <<run, definitions, recorded>>
            ELSE /\ run' = [[run EXCEPT !.events =
                                @ \o <<"loadRecording", "disableNetConnect">>]
                            EXCEPT !.netConnect = "disabled"]
                 /\ definitions' = scopes
                 /\ recorded' = scopes
                 /\ thrown' = thrown
                 /\ pc' = "loadCredentials"
  /\ UNCHANGED <<cursor, calls,
                 payload, credential, replaced, definition, original, redacted,
                 scheme, passes, config>>

\* startRecording up to its call of removeSensitiveInformation
StartRecording ==
  /\ pc = "startRecording"
  /\ IF run.recordingPath \in {"undefined", ""}
     THEN Fail("RecordingPathUndefinedError")
          /\ UNCHANGED <<run, definitions, recorded>>
     ELSE IF run.record
     THEN /\ run' = [Call("recorder.rec") EXCEPT !.recorder = "recording"]
          /\ thrown' = thrown
          /\ pc' = "perform"
          /\ UNCHANGED <<definitions, recorded>>
     ELSE \E recordingExists \in BOOLEAN, scopes \in LoadedLists :
            IF ~recordingExists
            THEN Fail("RecordingsNotFoundError")
                 /\ UNCHANGED <<run, definitions, recorded>>
            ELSE IF assertsPreparedConfig(run.sfConfig) # "none"
            THEN Fail(assertsPreparedConfig(run.sfConfig))
                 /\ UNCHANGED <<run, definitions, recorded>>
            ELSE IF Len(scopes) = 0
            THEN Fail("RecordingsNotFoundError")
                 /\ run' = Call("loadRecording")
                 /\ UNCHANGED <<definitions, recorded>>
            ELSE /\ run' = [[run EXCEPT !.events =
                                @ \o <<"loadRecording", "disableNetConnect">>]
                            EXCEPT !.netConnect = "disabled"]
                 /\ definitions' = scopes
                 /\ recorded' = scopes
                 /\ thrown' = thrown
                 /\ pc' = "loadCredentials"
  /\ UNCHANGED <<cursor, calls,
                 payload, credential, replaced, definition, original, redacted,
                 scheme, passes, config>>

\* removeSensitiveInformation(sfConfig, { scopes })
\* startRecording calling the afterRecordingLoad hook before the credentials
\* are restored
LoadCredentialsAfterHook ==
  /\ pc = "loadCredentials"
  /\ definitions' = loadCredentials(definitions, config)
  /\ run' = [run EXCEPT !.events = @ \o <<"afterRecordingLoad", "loadCredentials">>]
  /\ pc' = "perform"
  /\ UNCHANGED <<cursor, calls,
                 payload, credential, replaced, definition, original, redacted,
                 scheme, thrown, passes, recorded, config>>

LoadCredentials ==
  /\ pc = "loadCredentials"
  /\ definitions' = loadCredentials(definitions, config)
  /\ run' = Call("loadCredentials")
  /\ pc' = "afterRecordingLoad"
  /\ UNCHANGED <<cursor, calls,
                 payload, credential, replaced, definition, original, redacted,
                 scheme, thrown, passes, recorded, config>>

AfterRecordingLoad ==
  /\ pc = "afterRecordingLoad"
  /\ \E hook \in HookKinds :
        /\ run' = IF hook = "none" THEN run ELSE Call("afterRecordingLoad")
        /\ definitions' = IF hook = "edits" THEN HookEdit(definitions)
                          ELSE definitions
        /\ IF hook = "throws" THEN Fail("HookError")
           ELSE thrown' = thrown /\ pc' = "perform"
  /\ UNCHANGED <<cursor, calls,
                 payload, credential, replaced, definition, original, redacted,
                 scheme, passes, recorded, config>>

\* useCase.perform and the catch clause of run
Perform ==
  /\ pc = "perform"
  /\ \E outcome \in {"ok", "err", "neither", "throws"} :
        IF outcome = "throws"
        THEN /\ run' = [[run EXCEPT !.events = @ \o <<"perform", "restore">>]
                        EXCEPT !.recorder = "restored"]
             /\ Fail("PerformError")
        ELSE /\ run' = [Call("perform") EXCEPT !.result = outcome]
             /\ thrown' = thrown
             /\ pc' = "endRecording"
  /\ UNCHANGED <<cursor, calls,
                 payload, credential, replaced, definition, original, redacted,
                 scheme, passes, definitions, recorded, config>>

\* endRecording without its call of removeSensitiveInformation
EndRecordingWithoutRedaction ==
  /\ pc = "endRecording"
  /\ IF run.recordingPath \in {"undefined", ""}
     THEN Fail("RecordingPathUndefinedError")
          /\ UNCHANGED <<run, definitions, recorded>>
     ELSE IF ~run.record
     THEN /\ run' = [Call("enableNetConnect") EXCEPT !.netConnect = "enabled"]
          /\ thrown' = thrown
          /\ pc' = "return"
          /\ UNCHANGED <<definitions, recorded>>
     ELSE IF assertsPreparedConfig(run.sfConfig) # "none"
     THEN Fail(assertsPreparedConfig(run.sfConfig))
          /\ UNCHANGED <<run, definitions, recorded>>
     ELSE \E playedUndefined \in BOOLEAN, played \in PlayedLists :
            /\ run' = [[run EXCEPT !.events = @ \o <<"recorder.play", "restore">>]
                       EXCEPT !.recorder = "restored",
                              !.played = IF playedUndefined THEN "undefined"
                                         ELSE "list"]
            /\ IF playedUndefined
               THEN /\ thrown' = thrown
                    /\ pc' = "return"
                    /\ UNCHANGED <<definitions, recorded>>
               ELSE /\ definitions' = played
                    /\ recorded' = played
                    /\ IF assertsDefinitionsAreNotStrings(played)
                       THEN Fail("UnexpectedError: definition is a string, not object")
                       ELSE thrown' = thrown /\ pc' = "beforeRecordingSave"
  /\ UNCHANGED <<cursor, calls,
                 payload, credential, replaced, definition, original, redacted,
                 scheme, passes, config>>

\* endRecording returning in replay mode without enableNetConnect
EndRecordingLeavingNetDisabled ==
  /\ pc = "endRecording"
  /\ IF run.recordingPath \in {"undefined", ""}
     THEN Fail("RecordingPathUndefinedError")
          /\ UNCHANGED <<run, definitions, recorded>>
     ELSE IF ~run.record
     THEN /\ run' = run
          /\ thrown' = thrown
          /\ pc' = "return"
          /\ UNCHANGED <<definitions, recorded>>
     ELSE IF assertsPreparedConfig(run.sfConfig) # "none"
     THEN Fail(assertsPreparedConfig(run.sfConfig))
          /\ UNCHANGED <<run, definitions, recorded>>
     ELSE \E playedUndefined \in BOOLEAN, played \in PlayedLists :
            /\ run' = [[run EXCEPT !.events = @ \o <<"recorder.play", "restore">>]
                       EXCEPT !.recorder = "restored",
                              !.played = IF playedUndefined THEN "undefined"
                                         ELSE "list"]
            /\ IF playedUndefined
               THEN /\ thrown' = thrown
                    /\ pc' = "return"
                    /\ UNCHANGED <<definitions, recorded>>
               ELSE /\ definitions' = played
                    /\ recorded' = played
                    /\ IF assertsDefinitionsAreNotStrings(played)
                       THEN Fail("UnexpectedError: definition is a string, not object")
                       ELSE thrown' = thrown /\ pc' = "removeSensitiveInformation"
  /\ UNCHANGED <<cursor, calls,
                 payload, credential, replaced, definition, original, redacted,
                 scheme, passes, config>>

\* endRecording up to its call of removeSensitiveInformation
EndRecording ==
  /\ pc = "endRecording"
  /\ IF run.recordingPath \in {"undefined", ""}
     THEN Fail("RecordingPathUndefinedError")
          /\ UNCHANGED <<run, definitions, recorded>>
     ELSE IF ~run.record
     THEN /\ run' = [Call("enableNetConnect") EXCEPT !.netConnect = "enabled"]
          /\ thrown' = thrown
          /\ pc' = "return"
          /\ UNCHANGED <<definitions, recorded>>
     ELSE IF assertsPreparedConfig(run.sfConfig) # "none"
     THEN Fail(assertsPreparedConfig(run.sfConfig))
          /\ UNCHANGED <<run, definitions, recorded>>
     ELSE \E playedUndefined \in BOOLEAN, played \in PlayedLists :
            /\ run' = [[run EXCEPT !.events = @ \o <<"recorder.play", "restore">>]
                       EXCEPT !.recorder = "restored",
                              !.played = IF playedUndefined THEN "undefined"
                                         ELSE "list"]
            /\ IF playedUndefined
               THEN /\ thrown' = thrown
                    /\ pc' = "return"
                    /\ UNCHANGED <<definitions, recorded>>
               ELSE /\ definitions' = played
                    /\ recorded' = played
                    /\ IF assertsDefinitionsAreNotStrings(played)
                       THEN Fail("UnexpectedError: definition is a string, not object")
                       ELSE thrown' = thrown /\ pc' = "removeSensitiveInformation"
  /\ UNCHANGED <<cursor, calls,
                 payload, credential, replaced, definition, original, redacted,
                 scheme, passes, config>>

\* removeSensitiveInformation(sfConfig, { definitions })
RemoveSensitiveInformation ==
  /\ pc = "removeSensitiveInformation"
  /\ \E r \in {removeCredentials(definitions, config)} :
        /\ definitions' = r.defs
        /\ IF r.err # "none" THEN Fail(r.err) /\ passes' = passes
           ELSE thrown' = thrown /\ pc' = "beforeRecordingSave" /\ passes' = 1
  /\ run' = Call("removeCredentials")
  /\ UNCHANGED <<cursor, calls,
                 payload, credential, replaced, definition, original, redacted,
                 scheme, recorded, config>>

BeforeRecordingSave ==
  /\ pc = "beforeRecordingSave"
  /\ \E hook \in HookKinds :
        /\ run' = IF hook = "none" THEN run ELSE Call("beforeRecordingSave")
        /\ definitions' = IF hook = "edits" THEN HookEdit(definitions)
                          ELSE definitions
        /\ IF hook = "throws" THEN Fail("HookError")
           ELSE thrown' = thrown /\ pc' = "writeRecordings"
  /\ UNCHANGED <<cursor, calls,
                 payload, credential, replaced, definition, original, redacted,
                 scheme, passes, recorded, config>>

\* writeRecordings skipped for an empty list of exchanges
WriteRecordingsUnlessEmpty ==
  /\ pc = "writeRecordings"
  /\ run' = IF definitions = <<>> THEN run
            ELSE [Call("writeRecordings") EXCEPT
                    !.written = [done |-> TRUE, defs |-> definitions]]
  /\ pc' = "return"
  /\ UNCHANGED <<cursor, calls,
                 payload, credential, replaced, definition, original, redacted,
                 scheme, thrown, passes, definitions, recorded, config>>

WriteRecordings ==
  /\ pc = "writeRecordings"
  /\ run' = [Call("writeRecordings") EXCEPT
               !.written = [done |-> TRUE, defs |-> definitions]]
  /\ pc' = "return"
  /\ UNCHANGED <<cursor, calls,
                 payload, credential, replaced, definition, original, redacted,
                 scheme, thrown, passes, definitions, recorded, config>>

Return ==
  /\ pc = "return"
  /\ IF run.result = "err"
     THEN run' = [run EXCEPT !.returned = "error"] /\ thrown' = thrown /\ pc' = "done"
     ELSE IF run.result = "ok"
     THEN run' = [run EXCEPT !.returned = "value"] /\ thrown' = thrown /\ pc' = "done"
     ELSE run' = run /\ Fail("UnexpectedError: unreachable")
  /\ UNCHANGED <<cursor, calls,
                 payload, credential, replaced, definition, original, redacted,
                 scheme, passes, definitions, recorded, config>>

Next ==
  \/ SetupSuperfaceConfig
  \/ CheckConfig
  \/ StartRecording
  \/ LoadCredentials
  \/ AfterRecordingLoad
  \/ Perform
  \/ EndRecording
  \/ RemoveSensitiveInformation
  \/ BeforeRecordingSave
  \/ WriteRecordings
  \/ Return

Spec == Init /\ [][Next]_vars

(***************************************************************************)
(* Properties.  The texts of an exchange's fields, then the properties of  *)
(* replaceCredential, of one redaction, of the pass and of run.            *)
(***************************************************************************)
Range(s) == {s[i] : i \in DOMAIN s}

HeaderValues(def) ==
  UNION {Range(e.items) : e \in Range(def.reqheaders.entries)}

JsonTexts(j) == {j.k, j.v}

\* scope, path, request-header values, raw headers, body, response
FieldTexts(def) ==
  {def.scope, def.path} \cup HeaderValues(def) \cup Range(def.rawHeaders.items)
  \cup JsonTexts(def.body) \cup JsonTexts(def.response)

QueryValues(def) ==
  {p.value : p \in Range(SearchParams(UrlParse(def.path).search))}

\* the fields the parameter redactor edits: request-header values, raw-header
\* elements, body, response, scope, path segment and query values
ParameterFields(def) ==
  HeaderValues(def) \cup Range(def.rawHeaders.items)
  \cup JsonTexts(def.body) \cup JsonTexts(def.response)
  \cup {def.scope, UrlParse(def.path).pathname} \cup QueryValues(def)

\* the fields of an exchange that hold the text c
FieldIf(holds, field) == IF holds THEN {field} ELSE {}

HoldingFields(def, c) ==
  FieldIf(Includes(def.scope, c), <<"scope", 0>>)
  \cup FieldIf(Includes(UrlParse(def.path).pathname, c), <<"pathname", 0>>)
  \cup FieldIf(Includes(UrlParse(def.path).search, c), <<"search", 0>>)
  \cup FieldIf(Includes(UrlParse(def.path).hash, c), <<"hash", 0>>)
  \cup FieldIf(\E t \in JsonTexts(def.body) : Includes(t, c), <<"body", 0>>)
  \cup FieldIf(\E t \in JsonTexts(def.response) : Includes(t, c),
               <<"response", 0>>)
  \cup {<<"header", i>> :
          i \in {n \in 1..Len(def.reqheaders.entries) :
                   Includes(HeaderToString(def.reqheaders.entries[n]), c)}}
  \cup {<<"rawHeader", i>> :
          i \in {n \in 1..Len(def.rawHeaders.items) :
                   Includes(def.rawHeaders.items[n], c)}}

DigestError == "UnexpectedError: Digest auth not implemented"
StringError == "UnexpectedError: definition is a string, not object"

IsDigest(sch) == sch.type = "http" /\ sch.scheme = "digest"

\* C1: after removeCredentials has returned, no secret of a scheme that has a
\* matching security value with a non-empty secret occurs in any field of any
\* exchange of the list, whatever placement the scheme declares.
SecretsRemovedFromEveryField ==
  (pc = "removed" /\ thrown = "none") =>
    \A i \in 1..Len(definitions) : \A k \in 1..Len(config.securitySchemes) :
      LET v == FindSecurityValue(config.securityValues,
                                 config.securitySchemes[k])
      IN (v # NoValue /\ v.secret # <<>>) =>
           \A t \in FieldTexts(definitions[i].def) : ~Includes(t, v.secret)

\* C2: after replaceParameterInDefinition has returned for a parameter with a
\* non-empty value, the value occurs in none of the request-header values,
\* raw-header elements, body, response, scope, path segment or query values.
ParameterRemovedFromEveryField ==
  (pc = "redacted" /\ scheme = Parameter /\ credential # <<>>
     /\ thrown = "none") =>
    \A t \in ParameterFields(definition) : ~Includes(t, credential)

\* C3: redacting an exchange with the empty string as the secret, for any
\* scheme and placement or for a parameter, leaves every field as it was.
EmptySecretChangesNothing ==
  (pc = "redacted" /\ credential = <<>>) => definition = original

\* C4: replaceCredential with a non-empty secret returns the payload with
\* exactly the literal occurrences of the secret replaced by the placeholder;
\* the secret is never read as a pattern.
ReplacesLiteralOccurrencesOnly ==
  (pc = "replaced" /\ credential # <<>>) =>
    /\ replaced.err = "none"
    /\ replaced.out =
         LiteralReplace(payload, credential, HIDDEN_CREDENTIALS_PLACEHOLDER)

\* C5: redacting the already redacted exchange a second time, with the same
\* scheme or parameter and the same secret, changes no field of it.
RedactionIsIdempotent ==
  pc = "again" => (thrown = "none" /\ definition = redacted)

\* C6: when the secret appears in exactly one field of the exchange, restoring
\* the redacted exchange with the same scheme and secret gives the exchange
\* back, equal in every field.
RestoreUndoesRedaction ==
  (pc = "restored" /\ credential # <<>>
     /\ Cardinality(HoldingFields(original, credential)) = 1) =>
    definition = original

\* C7: redacting with a scheme and its secret never changes a field of the
\* exchange that holds only the distinct secret of another scheme.
OtherSecretsUntouched ==
  (pc = "redacted" /\ scheme.type # "parameter" /\ thrown = "none"
     /\ credential # <<>> /\ credential # OtherSecret) =>
    /\ \A i \in 1..Len(original.reqheaders.entries) :
         LET text == HeaderToString(original.reqheaders.entries[i])
         IN (Includes(text, OtherSecret) /\ ~Includes(text, credential)) =>
              definition.reqheaders.entries[i] = original.reqheaders.entries[i]
    /\ (Includes(original.path, OtherSecret)
          /\ ~Includes(original.path, credential)) =>
         definition.path = original.path
    /\ (Includes(original.scope, OtherSecret)
          /\ ~Includes(original.scope, credential)) =>
         definition.scope = original.scope

\* C8, as the claim states it: whenever removeCredentials runs with a scheme
\* list that contains a Digest scheme, it throws.
DigestSchemeAlwaysFails ==
  (pc = "removed"
     /\ \E k \in 1..Len(config.securitySchemes) :
           IsDigest(config.securitySchemes[k])) =>
    thrown # "none"

\* C8, amended: whenever removeCredentials runs over a list of at least one
\* exchange with a scheme list that contains a Digest scheme for which a
\* security value is declared, it throws.
DigestSchemeWithValueFails ==
  (pc = "removed" /\ recorded # <<>>
     /\ \E k \in 1..Len(config.securitySchemes) :
           /\ IsDigest(config.securitySchemes[k])
           /\ FindSecurityValue(config.securityValues,
                                config.securitySchemes[k]) # NoValue) =>
    thrown # "none"

\* C8, witness: a pass over two exchanges whose second scheme is a Digest
\* scheme with a declared value has thrown the Digest error.
DigestSchemeWithValueFailed ==
  /\ pc = "removed"
  /\ Len(recorded) = 2
  /\ Len(config.securitySchemes) = 2
  /\ IsDigest(config.securitySchemes[2])
  /\ ~IsDigest(config.securitySchemes[1])
  /\ FindSecurityValue(config.securityValues, config.securitySchemes[2]) # NoValue
  /\ thrown = DigestError

\* C9: run fails with UnexpectedError('definition is a string, not object')
\* if and only if an element of the list the recorder played is a string, and
\* then neither the redaction nor the write of the recording file has happened
\* in that run; both happen only for a list without string elements.
StringElementsRejectedFirst ==
  /\ (thrown = StringError) <=>
       (\E i \in 1..Len(recorded) : recorded[i].isString)
  /\ (thrown = StringError) =>
       /\ pc = "failed"
       /\ \A n \in 1..Len(run.events) :
            run.events[n] \notin {"removeCredentials", "writeRecordings"}
       /\ ~run.written.done
       /\ passes = 0
  /\ (\E n \in 1..Len(run.events) :
        run.events[n] \in {"removeCredentials", "writeRecordings"}) =>
       \A i \in 1..Len(recorded) : ~recorded[i].isString

\* C9, witness: the recorder played a structured exchange followed by a
\* string, and run has failed on it.
StringElementRejected ==
  /\ pc = "failed"
  /\ thrown = StringError
  /\ Len(recorded) = 2
  /\ ~recorded[1].isString
  /\ recorded[2].isString

\* C10: the recording file is written only after the redaction pass has
\* completed: a run in which the string check, the redaction pass or the
\* beforeRecordingSave hook has thrown writes nothing, and what is written
\* is the list the redaction pass returned, as the hook left it.
WrittenOnlyAfterRedaction ==
  /\ thrown \in {StringError, DigestError, "HookError", "SyntaxError"} =>
       /\ ~run.written.done
       /\ \A n \in 1..Len(run.events) : run.events[n] # "writeRecordings"
  /\ run.written.done =>
       /\ passes = 1
       /\ \E n \in 1..Len(run.events) : \E m \in (n + 1)..Len(run.events) :
            /\ run.events[n] = "removeCredentials"
            /\ run.events[m] = "writeRecordings"
       /\ \E r \in {removeCredentials(recorded, config)} :
            /\ r.err = "none"
            /\ run.written.defs \in {r.defs, HookEdit(r.defs)}

\* C10, witness: a recording of an exchange that held the secret of a scheme
\* has been written, and the written exchange differs from the played one.
RedactedRecordingWritten ==
  /\ run.written.done
  /\ Len(recorded) >= 1
  /\ config.securityValues # <<>>
  /\ run.written.defs # recorded
  /\ run.written.defs = removeCredentials(recorded, config).defs

\* the calls of one collaborator in run.events: how many, and where
Count(event) ==
  Cardinality({n \in 1..Len(run.events) : run.events[n] = event})

Position(event) == CHOOSE n \in 1..Len(run.events) : run.events[n] = event

\* C11: whenever run has thrown, the interception state is torn down: network
\* connections are enabled and the recorder is not recording.
TornDownBeforeFailure ==
  pc = "failed" => (run.netConnect = "enabled" /\ run.recorder # "recording")

ReplayTogglesNetConnectOnce ==
  (pc = "done" /\ ~run.record) =>
    /\ Count("disableNetConnect") = 1
    /\ Count("enableNetConnect") = 1
    /\ Position("disableNetConnect") < Position("enableNetConnect")
    /\ run.netConnect = "enabled"
    /\ Count("recorder.rec") = 0
    /\ run.recorder # "recording"
    /\ Count("writeRecordings") = 0
    /\ ~run.written.done

\* C13, witness: a replay run has returned the value of the use case.
ReplayRunCompleted ==
  /\ pc = "done"
  /\ ~run.record
  /\ run.returned = "value"
  /\ Count("loadCredentials") = 1

\* the recorder calls of a completed record run: rec once before perform,
\* play and restore once after it, network connections never disabled
RecorderUsedOnce ==
  /\ Count("recorder.rec") = 1
  /\ Count("perform") = 1
  /\ Count("recorder.play") = 1
  /\ Count("restore") = 1
  /\ Position("recorder.rec") < Position("perform")
  /\ Position("perform") < Position("recorder.play")
  /\ Position("recorder.play") < Position("restore")
  /\ Count("disableNetConnect") = 0
  /\ run.netConnect = "enabled"

WrittenOnceAfterRestore ==
  /\ Count("writeRecordings") = 1
  /\ Position("restore") < Position("writeRecordings")
  /\ run.written.done
  /\ Len(run.written.defs) = Len(recorded)

\* C14, as the claim states it: a record run that completes has started the
\* recorder once before the perform, played and restored it once after the
\* perform, then written the recording file once with the captured
\* exchanges, and has never disabled network connections.
RecordRunAlwaysWrites ==
  (pc = "done" /\ run.record) => (RecorderUsedOnce /\ WrittenOnceAfterRestore)

\* C14, amended: as above, with the recording file written once when
\* recorder.play() returned a list, an empty one too, and not written when it
\* returned undefined.
RecordRunWritesPlayedList ==
  (pc = "done" /\ run.record) =>
    /\ RecorderUsedOnce
    /\ run.played = "list" => WrittenOnceAfterRestore
    /\ run.played = "undefined" =>
         (Count("writeRecordings") = 0 /\ ~run.written.done)

\* C14, witness: a record run that captured no exchange has completed and
\* written the empty list.
EmptyRecordingWritten ==
  /\ pc = "done"
  /\ run.record
  /\ run.played = "list"
  /\ recorded = <<>>
  /\ run.written = [done |-> TRUE, defs |-> <<>>]

\* the value of the request header named n, as a string
HeaderNamed(def, n) == HeaderToString(def.reqheaders.entries[HeaderIndex(def, n)])

\* C15: for an API-key scheme placed in a header that the exchange has, here
\* with the secret in its value, the value of that header is exactly the
\* placeholder after redaction, whatever other text it held, and the secret
\* occurs in no other request-header value and in no raw header.
ApiKeyHeaderReplacedEntirely ==
  (pc = "redacted" /\ scheme = ApiKeyScheme("header", KeyName)
     /\ credential # <<>> /\ thrown = "none"
     /\ HeaderIndex(original, KeyName) # 0
     /\ Includes(HeaderNamed(original, KeyName), credential)) =>
    /\ HeaderNamed(definition, KeyName) = CredentialPlaceholder(scheme)
    /\ \A i \in 1..Len(definition.reqheaders.entries) :
         i # HeaderIndex(definition, KeyName) =>
           ~Includes(HeaderToString(definition.reqheaders.entries[i]), credential)
    /\ \A t \in Range(definition.rawHeaders.items) : ~Includes(t, credential)

\* what the claim C16 asks of one query parameter
RedactedQueryPair(pair, n, c, placeholder) ==
  IF pair.key = n /\ Includes(pair.value, c)
  THEN [key |-> pair.key, value |-> placeholder]
  ELSE [key |-> pair.key, value |-> LiteralReplace(pair.value, c, placeholder)]

\* C16: for an API-key scheme placed in the query with the declared name n, a
\* parameter n whose value holds the secret has the placeholder as its whole
\* value after redaction, every other query value has its occurrences of the
\* secret replaced by the placeholder, and a query with no value that holds
\* the secret is unchanged.
ApiKeyQueryRedacted ==
  (pc = "redacted" /\ scheme = ApiKeyScheme("query", KeyName)
     /\ credential # <<>> /\ thrown = "none") =>
    LET before == SearchParams(UrlParse(original.path).search)
        after == SearchParams(UrlParse(definition.path).search)
    IN IF \E i \in 1..Len(before) : Includes(before[i].value, credential)
       THEN after = [i \in 1..Len(before) |->
                       RedactedQueryPair(before[i], KeyName, credential,
                                         CredentialPlaceholder(scheme))]
       ELSE UrlParse(definition.path).search = UrlParse(original.path).search

\* C17: API-key redaction with the body placement leaves scope, path,
\* reqheaders and rawHeaders as they were; with the path placement it leaves
\* the query string and the hash of the path, the scope, the headers and the
\* body as they were, also when they hold the secret.
ApiKeyPlacementConfined ==
  (pc = "redacted" /\ scheme.type = "apiKey") =>
    /\ scheme.in = "body" =>
         /\ definition.scope = original.scope
         /\ definition.path = original.path
         /\ definition.reqheaders = original.reqheaders
         /\ definition.rawHeaders = original.rawHeaders
    /\ scheme.in = "path" =>
         /\ UrlParse(definition.path).search = UrlParse(original.path).search
         /\ UrlParse(definition.path).hash = UrlParse(original.path).hash
         /\ definition.scope = original.scope
         /\ definition.reqheaders = original.reqheaders
         /\ definition.rawHeaders = original.rawHeaders
         /\ definition.body = original.body

\* C17, witness: the secret was in the path segment, the query, a header and
\* the body; redaction with the path placement has replaced it in the path
\* segment and left it in the query.
PathSegmentAloneRedacted ==
  /\ pc = "redacted"
  /\ scheme = ApiKeyScheme("path", KeyName)
  /\ credential = <<"a">>
  /\ thrown = "none"
  /\ Includes(UrlParse(original.path).pathname, credential)
  /\ Includes(UrlParse(original.path).search, credential)
  /\ Includes(original.body.v, credential)
  /\ original.reqheaders.defined
  /\ ~Includes(UrlParse(definition.path).pathname, credential)
  /\ Includes(UrlParse(definition.path).search, credential)

\* C18: for an HTTP Basic or Bearer scheme an Authorization request header,
\* when the exchange has one, is 'Basic ' or 'Bearer ' followed by the
\* placeholder after redaction, whatever it held; without such a header
\* reqheaders is unchanged; and the secret occurs in no raw header.
AuthorizationOverwritten ==
  (pc = "redacted" /\ scheme.type = "http"
     /\ scheme.scheme \in {"basic", "bearer"} /\ thrown = "none") =>
    /\ HeaderIndex(original, AUTH_HEADER_NAME) # 0 =>
         HeaderNamed(definition, AUTH_HEADER_NAME) =
           (IF scheme.scheme = "basic" THEN <<"Basic ">> ELSE <<"Bearer ">>)
           \o CredentialPlaceholder(scheme)
    /\ HeaderIndex(original, AUTH_HEADER_NAME) = 0 =>
         definition.reqheaders = original.reqheaders
    /\ credential # <<>> =>
         \A t \in Range(definition.rawHeaders.items) : ~Includes(t, credential)

\* C19: after the redaction for an API-key, Basic or Bearer scheme with a
\* non-empty secret, a defined response holds no occurrence of the secret.
ResponseHoldsNoSecret ==
  (pc = "redacted" /\ scheme.type \in {"apiKey", "http"} /\ ~IsDigest(scheme)
     /\ credential # <<>> /\ thrown = "none"
     /\ original.response.t # "undefined") =>
    \A t \in JsonTexts(definition.response) : ~Includes(t, credential)

\* the calls of one pass, in the order they were made
CallsOf(pass) == SelectSeq(calls, LAMBDA c : c.pass = pass)

\* call x comes before call y in the order of the passes: an earlier exchange,
\* or the same exchange and the parameters before a scheme, or a scheme
\* declared earlier
Before(x, y) ==
  \/ x.def < y.def
  \/ /\ x.def = y.def
     /\ \/ x.op = "params" /\ y.op = "scheme"
        \/ x.op = "scheme" /\ y.op = "scheme" /\ x.scheme < y.scheme

InOrder(s) == \A a, b \in 1..Len(s) : a < b => Before(s[a], s[b])

\* every exchange had its parameters call and one call for each scheme
Complete(s, pass) ==
  \A i \in 1..Len(definitions) :
    /\ \E a \in 1..Len(s) : s[a] = ParamsCall(pass, i)
    /\ \A k \in 1..Len(config.securitySchemes) :
         \E a \in 1..Len(s) : s[a] = SchemeCall(pass, i, k)

\* C20: both passes call in the same order: the exchanges in list order and,
\* for each exchange, the parameters first and then each scheme in declared
\* order; a pass that returned has made every one of these calls, and the
\* calls of loadCredentials are those of removeCredentials, one for one.
PassesUseSameOrder ==
  /\ InOrder(CallsOf("remove"))
  /\ InOrder(CallsOf("load"))
  /\ pc \in {"load", "loaded"} => Complete(CallsOf("remove"), "remove")
  /\ pc = "loaded" =>
       /\ Complete(CallsOf("load"), "load")
       /\ CallsOf("remove") =
            [j \in 1..Len(CallsOf("load")) |->
               [CallsOf("load")[j] EXCEPT !.pass = "remove"]]

\* both passes have run over two exchanges with two schemes and a parameter
BothPassesRanInOrder ==
  /\ pc = "loaded"
  /\ Len(definitions) = 2
  /\ Len(config.securitySchemes) = 2
  /\ config.integrationParameters # <<>>
  /\ Len(calls) = 12
  /\ calls[1] = ParamsCall("remove", 1)
  /\ calls[2] = SchemeCall("remove", 1, 1)
  /\ calls[7] = ParamsCall("load", 1)

\* a security value with the id of the scheme is declared
HasValue(cfg, sch) ==
  \E i \in 1..Len(cfg.securityValues) : cfg.securityValues[i].id = sch.id

\* the configuration without the schemes that have no security value
DeclaredOnly(cfg) ==
  [cfg EXCEPT !.securitySchemes = SelectSeq(@, LAMBDA sch : HasValue(cfg, sch))]

\* C21: a scheme for which no security value of the same id is declared is
\* skipped: the pass gives the exchanges and the outcome it gives without
\* that scheme, and it leaves the exchanges as captured, without an error,
\* when no scheme has a value and there is no parameter.
SchemesWithoutValueSkipped ==
  ((pc = "load" /\ CallsOf("load") = <<>>) \/ pc = "failed") =>
    /\ DeclaredOnly(config) # config =>
         \E r \in {removeCredentials(recorded, DeclaredOnly(config))} :
            definitions = r.defs /\ thrown = r.err
    /\ ((\A k \in 1..Len(config.securitySchemes) :
            ~HasValue(config, config.securitySchemes[k]))
          /\ config.integrationParameters = <<>>) =>
         (definitions = recorded /\ thrown = "none")

\* the first scheme, a Digest scheme, has no value and the second, whose
\* value is declared, was redacted
SchemeWithoutValueSkipped ==
  /\ pc = "load"
  /\ CallsOf("load") = <<>>
  /\ thrown = "none"
  /\ Len(config.securitySchemes) = 2
  /\ IsDigest(config.securitySchemes[1])
  /\ ~HasValue(config, config.securitySchemes[1])
  /\ HasValue(config, config.securitySchemes[2])
  /\ definitions # recorded

\* the components in the order of the claim, and the errors that name them
Components == <<"client", "profile", "provider", "useCase">>

ComponentUndefinedError ==
  [client |-> "ComponentUndefinedError: Client",
   profile |-> "ComponentUndefinedError: Profile",
   provider |-> "ComponentUndefinedError: Provider",
   useCase |-> "ComponentUndefinedError: UseCase"]

InstanceMissingError ==
  [client |-> "InstanceMissingError: Client",
   profile |-> "InstanceMissingError: Profile",
   provider |-> "InstanceMissingError: Provider",
   useCase |-> "InstanceMissingError: UseCase"]

\* the positions in Components of the components that are not ready
NotReady(sf) == {n \in 1..4 : sf[Components[n]] # "instance"}

FirstNotReady(sf) == CHOOSE n \in NotReady(sf) : \A m \in NotReady(sf) : n <= m

\* C22: assertsPreparedConfig throws for the first component, in the order
\* client, profile, provider, use case, that is not ready: the undefined-
\* component error naming it when it is undefined, the missing-instance error
\* naming it when it is a string; it returns exactly when all four are ready.
FirstUnreadyComponentReported ==
  pc = "asserted" =>
    /\ thrown = "none" <=>
         (\A n \in 1..4 : run.sfConfig[Components[n]] # "undefined")
         /\ (\A n \in 2..4 : run.sfConfig[Components[n]] # "string")
    /\ NotReady(run.sfConfig) # {} =>
         thrown =
           (IF run.sfConfig[Components[FirstNotReady(run.sfConfig)]] = "undefined"
            THEN ComponentUndefinedError
            ELSE InstanceMissingError)[Components[FirstNotReady(run.sfConfig)]]

\* the provider is a string and the use case undefined: the provider is named
ProviderReportedBeforeUseCase ==
  /\ pc = "asserted"
  /\ run.sfConfig.client = "instance"
  /\ run.sfConfig.profile = "instance"
  /\ run.sfConfig.provider = "string"
  /\ run.sfConfig.useCase = "undefined"
  /\ thrown = "InstanceMissingError: Provider"

\* the component as run sees it: the one of the test case, or else the one
\* given at construction
Effective(c) ==
  IF run.testCase[c] # "undefined" THEN run.testCase[c] ELSE run.sfConfig[c]

\* the positions in Components of profile, provider, use case when missing
Missing == {n \in 2..4 : Effective(Components[n]) = "undefined"}

ConfigurationErrors ==
  {ComponentUndefinedError[Components[n]] : n \in 2..4} \cup {"MapUndefinedError"}

\* C23: run fails with the undefined-component error for the first of
\* profile, provider, use case that is missing, and with MapUndefinedError
\* when the map was found not to be local; when it fails so, the recorder was
\* not started, network connections were not disabled, the use case was not
\* performed and nothing was written.
ConfigurationErrorsBeforeInterception ==
  /\ (Missing # {} /\ pc \notin {"run", "assertsPreparedConfig"}) =>
       /\ pc = "failed"
       /\ thrown = ComponentUndefinedError[
                     Components[CHOOSE n \in Missing : \A m \in Missing : n <= m]]
  /\ run.mapLocal = "notLocal" => (pc = "failed" /\ thrown = "MapUndefinedError")
  /\ thrown \in ConfigurationErrors =>
       /\ run.events = <<>>
       /\ run.recorder = "idle"
       /\ run.netConnect = "enabled"
       /\ run.result = "none"
       /\ ~run.written.done

\* the provider and the use case are missing: run failed naming the provider
MissingProviderReported ==
  /\ pc = "failed"
  /\ Effective("profile") # "undefined"
  /\ Effective("provider") = "undefined"
  /\ Effective("useCase") = "undefined"
  /\ thrown = "ComponentUndefinedError: Provider"
  /\ run.events = <<>>

\* C24: over structured exchanges the pass raises no error but the rejection
\* of a Digest scheme, whatever the secrets and the parameter values are.
PassRaisesDigestErrorOnly ==
  thrown \in {"none", DigestError}

\* the exchange at position j of the captured list redacted alone
Alone(j) == removeCredentials(<<recorded[j]>>, config).defs[1]

\* the exchange that the last call of removeCredentials was for, 0 before
\* the first call
LastRedacted ==
  IF CallsOf("remove") = <<>> THEN 0
  ELSE CallsOf("remove")[Len(CallsOf("remove"))].def

\* C25: the pass keeps no state across exchanges: while it runs, and when it
\* has failed, the exchanges after the one it is at are as captured and
\* those before it are as the pass over each of them alone leaves them; when
\* it has returned every exchange is as the pass over it alone leaves it.
ExchangesRedactedIndependently ==
  /\ pc \in {"remove", "failed"} =>
       \A j \in 1..Len(definitions) :
         /\ j > LastRedacted => definitions[j] = recorded[j]
         /\ j < LastRedacted => definitions[j] = Alone(j)
  /\ (pc = "load" /\ CallsOf("load") = <<>>) =>
       \A j \in 1..Len(definitions) : definitions[j] = Alone(j)

\* two different exchanges were redacted by a pass with a parameter and a
\* scheme, and the pass changed both
TwoExchangesRedacted ==
  /\ pc = "load"
  /\ CallsOf("load") = <<>>
  /\ Len(definitions) = 2
  /\ recorded[1] # recorded[2]
  /\ config.integrationParameters # <<>>
  /\ Len(config.securitySchemes) >= 1
  /\ definitions[1] # recorded[1]
  /\ definitions[2] # recorded[2]

\* the value of a header entry as one text, a sequence joined with ", "
HeaderText(entry) ==
  IF entry.isArray THEN Join(entry.items, <<",", " ">>) ELSE entry.items[1]

\* C26: the headers editor, as the redaction of a parameter runs it: every
\* entry whose value, a sequence being joined with ", ", holds the secret
\* has its occurrences replaced by the placeholder; every other entry is
\* exactly as before; no entry is added or removed and the names are kept.
HeadersEditedEntryByEntry ==
  (pc = "redacted" /\ passes = 1 /\ scheme.type = "parameter"
     /\ credential # <<>> /\ thrown = "none"
     /\ original.reqheaders.defined) =>
    /\ definition.reqheaders.defined
    /\ Len(definition.reqheaders.entries) = Len(original.reqheaders.entries)
    /\ \A i \in 1..Len(original.reqheaders.entries) :
         /\ definition.reqheaders.entries[i].name =
              original.reqheaders.entries[i].name
         /\ IF Includes(HeaderText(original.reqheaders.entries[i]), credential)
            THEN HeaderText(definition.reqheaders.entries[i]) =
                   LiteralReplace(HeaderText(original.reqheaders.entries[i]),
                                  credential, ParameterPlaceholder(scheme.id))
            ELSE definition.reqheaders.entries[i] =
                   original.reqheaders.entries[i]

\* the query key/value pairs of the path of a definition
QueryPairs(def) == SearchParams(UrlParse(def.path).search)

\* C27: the generic query editor, as the redaction of a parameter runs it:
\* every query pair has the secret replaced in its own value; the pairs are
\* as many as before, with the same keys in the same order, also when a key
\* occurs several times; the hash fragment is preserved, and so is the path
\* segment when it does not hold the secret.
QueryPairsEditedInPlace ==
  (pc = "redacted" /\ passes = 1 /\ scheme.type = "parameter"
     /\ credential # <<>> /\ thrown = "none") =>
    /\ Len(QueryPairs(definition)) = Len(QueryPairs(original))
    /\ \A i \in 1..Len(QueryPairs(original)) :
         i <= Len(QueryPairs(definition)) =>
           /\ QueryPairs(definition)[i].key = QueryPairs(original)[i].key
           /\ QueryPairs(definition)[i].value =
                LiteralReplace(QueryPairs(original)[i].value, credential,
                               ParameterPlaceholder(scheme.id))
    /\ UrlParse(definition.path).hash = UrlParse(original.path).hash
    /\ ~Includes(UrlParse(original.path).pathname, credential) =>
         UrlParse(definition.path).pathname = UrlParse(original.path).pathname

\* event a was logged, and before event b if b was logged
Precedes(a, b) ==
  /\ Count(a) > 0
  /\ Count(b) > 0 => Position(a) < Position(b)

\* C28: the beforeRecordingSave hook is called only after the redaction pass
\* has finished and before the write, which receives the exchanges as the
\* hook left them; the afterRecordingLoad hook is called only after network
\* connections were disabled and the credentials restored, and before the
\* use case is performed.
HooksCalledInOrder ==
  /\ Count("beforeRecordingSave") > 0 =>
       /\ run.record
       /\ passes = 1
       /\ Precedes("removeCredentials", "beforeRecordingSave")
       /\ Count("writeRecordings") > 0 =>
            Precedes("beforeRecordingSave", "writeRecordings")
  /\ run.written.done => run.written.defs = definitions
  /\ Count("afterRecordingLoad") > 0 =>
       /\ ~run.record
       /\ Precedes("disableNetConnect", "afterRecordingLoad")
       /\ Precedes("loadCredentials", "afterRecordingLoad")
       /\ Count("perform") > 0 => Precedes("afterRecordingLoad", "perform")

\* a record run whose hook edited the redacted exchanges wrote them edited
EditedRecordingWritten ==
  /\ pc = "done"
  /\ run.record
  /\ Count("beforeRecordingSave") = 1
  /\ run.written.done
  /\ Len(run.written.defs) >= 1
  /\ run.written.defs = HookEdit(removeCredentials(recorded, config).defs)
  /\ run.written.defs # removeCredentials(recorded, config).defs

\* C29: replaceCredentialInDefinition called with a Digest scheme throws and
\* leaves every field of the exchange, the response included, as it was.
DigestThrowsBeforeEditing ==
  (pc = "redacted" /\ passes = 1 /\ IsDigest(scheme)) =>
    /\ thrown = DigestError
    /\ definition = original

\* the call failed for a Digest scheme on an exchange whose response and
\* request header hold the secret
DigestFailedOnSecretInResponse ==
  /\ pc = "redacted"
  /\ passes = 1
  /\ IsDigest(scheme)
  /\ thrown = DigestError
  /\ credential = <<"a">>
  /\ \E t \in JsonTexts(original.response) : Includes(t, credential)
  /\ \E t \in HeaderValues(original) : Includes(t, credential)

\* C30: the fixtures path is the configured path or else the nock directory
\* of the working directory; run throws FixturesPathUndefinedError only when
\* the configured path is the empty string; past setupRecordingPath the
\* recording path is defined, and RecordingPathUndefinedError is never
\* thrown.
PathsSetUp ==
  /\ run.fixturesPath =
       (IF run.nockPath = "undefined" THEN "cwd/nock" ELSE run.nockPath)
  /\ thrown = "FixturesPathUndefinedError" => run.nockPath = ""
  /\ pc \notin {"run", "assertsPreparedConfig", "failed"} =>
       (run.nockPath # "" /\ run.recordingPath # "undefined")
  /\ Len(run.events) > 0 => run.recordingPath # "undefined"
  /\ thrown # "RecordingPathUndefinedError"

\* a run constructed without a configured path ended, the recording under
\* the default fixtures path
RunEndedWithDefaultPath ==
  /\ pc = "done"
  /\ run.nockPath = "undefined"
  /\ run.fixturesPath = "cwd/nock"
  /\ run.recordingPath # "undefined"
  /\ Len(run.events) > 0

====
